---------------------------- MODULE Spec2Model ----------------------------
(***************************************************************************)
(* A model of the asynchronous socket engine of sm-ext-socket: the socket  *)
(* registry (SocketHandler), the callback queue (CallbackHandler), the     *)
(* events (Callback) and the per-socket state machines (Socket<tcp>,       *)
(* Socket<udp>).                                                           *)
(*                                                                         *)
(* The module holds several specifications over disjoint groups of         *)
(* variables; each specification pins the groups it does not use.          *)
(*   Spec         registry + callback queue + drain + destroy              *)
(*   SpecSend     the send counter and the SendQueueEmpty event            *)
(*   SpecAccept   the accept loop of a listening TCP socket                *)
(*   SpecRecv     the receive loop of a TCP socket and its delivery        *)
(*   SpecConnect  dual-stack options, endpoint selection and TCP Connect   *)
(*   SpecTLS      Connect, handshake and verification of a TLS socket      *)
(*   SpecLock     the callback-queue mutex during a drain                  *)
(*   SpecReactor  the lifecycle of the reactor thread                      *)
(*   SpecContext  TLS sockets and the SSL context they are made from       *)
(*   SpecSync     what each synchronous Bind, Connect and Send returns     *)
(*   SpecPair     receive loop and Send of a TCP socket and a TLS session  *)
(*   SpecCmp      endpoints tried by a TLS Connect and by a TCP Connect    *)
(*   SpecCnt      the outstanding-send counter on every completion path    *)
(*   SpecChild    the statements of one accept and the children's events   *)
(*   SpecFamily   the address family of the descriptor Bind / Connect open  *)
(*   SpecTeardown DestroySocket against a completion handler, by lock       *)
(*   SpecReplay   the replay of the queued options of a TLS socket (fair)   *)
(*   SpecClose    a local Disconnect() with a read pending                 *)
(*   SpecReuse    events of operations that outlive their socket           *)
(***************************************************************************)
EXTENDS Integers, Sequences, FiniteSets, TLC

(***************************************************************************)
(* Bounds of the model.                                                    *)
(***************************************************************************)
MaxCreate == 1
MaxAccept == 1
MaxEvents == 2
MaxSends == 3
MaxListen == 3
MaxConnections == 5
MaxQueuedOptions == 2
MaxDisconnects == 2
MaxStream == 3
BufferSize == 2
MaxEndpoints == 3
MaxTlsConnects == 2
MaxHandlers == 3
MaxReentries == 2
MaxLockQueue == 3
MaxStarts == 3
MaxStops == 3
MaxPending == 2
MaxTlsOptions == 2
MaxSyncCalls == 2
MaxInputs == 3
MaxResolved == 1
MaxSendOps == 3
MaxChildren == 2
MaxInserted == 5
MaxFamilyOps == 2
MaxFamilyList == 2
MaxIssued == 2
MaxTlsQueued == 3
MaxCloseInputs == 8
MaxAddresses == 2
MaxIncarnations == 2
MaxBoundEvents == 2
CounterBits == 3

(***************************************************************************)
(* Program constants and enumerations (Define.h).                          *)
(***************************************************************************)
NoWrapper == 0

EventKinds == {"Connect", "Disconnect", "Incoming", "Receive", "SendQueueEmpty", "Error"}

SocketTypes == {"Tcp", "Udp", "Tls"}

\* The dual-stack members of SM_SocketOption and the values the model passes.
DualStackOptions == {"IPv6Only", "PreferIPv6", "PreferIPv4"}

OptionValues == {0, 1, 2}

\* Address families of a resolved endpoint.
Families == {"v4", "v6"}

\* Byte values; 0 is NUL.
Bytes == {0, 1, 2}

NoCallback == [callbackEvent |-> "none", socketWrapper |-> NoWrapper, newSocket |-> 0, seq |-> 0]

VARIABLES
    \* ---- engine: SocketHandler / CallbackHandler / Callback ----
    wrappers,       \* every SocketWrapper ever allocated, by incarnation: [socket, socketType]
    socketList,     \* SocketHandler::socketList_: the incarnations registered, in order
    handlers,       \* per incarnation: the event kinds whose IPluginFunction* field is non-null
    callbackQueue,  \* CallbackHandler::callbackQueue_
    fetched,        \* the callback ExecuteQueuedCallbacks holds between fetch and execution
    inflight,       \* asynchronous operations pending on the reactor: [this, owner]
    nextSeq,        \* ghost: the number of AddCallback insertions so far
    lastDrain,      \* ghost: what the last drain step did: "dispatched" (a handler ran) or "discarded"
    crashed,        \* the process died on an invalid memory access
    nCreated,       \* ghost: the sockets the bridge created (Create calls)
    nAccepted,      \* ghost: the sockets the accept loop created
    kinds           \* the event kinds the run's operations produce and the plugin handles

engineVars == <<wrappers, socketList, handlers, callbackQueue, fetched, inflight,
                nextSeq, lastDrain, crashed, nCreated, nAccepted, kinds>>

VARIABLES
    \* ---- send path of one socket: Socket::Send / SendPostSendHandler ----
    sendQueueLength,        \* Socket::sendQueueLength (atomic)
    sendqueueEmptyCallback, \* Socket::sendqueueEmptyCallback is non-null
    writes,                 \* async_write operations pending on the reactor
    reactorPc,              \* reactor thread inside SendPostSendHandler: "idle", or the
                            \* error code ("ok"/"err") once it has decremented the counter
    consumerPc,             \* consumer thread inside a synchronous Send: "idle",
                            \* "w_ok"/"w_err" (written), "d_ok"/"d_err" (decremented)
    nSends,                 \* ghost: Send calls so far
    nSync,                  \* ghost: of which synchronous
    nStarted,               \* ghost: completions the reactor has started
    nDrained,               \* ghost: SendQueueEmpty events emitted
    nSendErrors,            \* ghost: Error(SEND_ERROR) events emitted
    burst                   \* ghost: every async Send was issued before the first completion

sendVars == <<sendQueueLength, sendqueueEmptyCallback, writes, reactorPc, consumerPc,
              nSends, nSync, nStarted, nDrained, nSendErrors, burst>>

VARIABLES
    \* ---- accept loop of one TCP socket: Listen / ListenIncomingHandler ----
    localEndpoint,   \* Socket::localEndpoint_ is set (Bind succeeded)
    tcpAcceptor,     \* Socket::tcpAcceptor_ exists
    acceptPending,   \* async_accept operations pending on the acceptor
    listenResult,    \* ghost: what the last Listen call returned: "none", "true", "false"
    socketOptionQueue, \* Socket::socketOptionQueue_: the options waiting, [option, value]
    socketOpen,      \* socket_->is_open()
    socketBound,     \* socket_ is bound to the local endpoint
    bindPending,     \* an asynchronous Bind awaits its resolution
    lastBind,        \* ghost: how the last Bind ended ("none" before the first)
    socketReuseAddr, \* SO_REUSEADDR as set on socket_: "default", "on", "off"
    acceptorReuseAddr, \* SO_REUSEADDR of the acceptor: "none" (no acceptor), "on", "off"
    nListenOk,       \* ghost: Listen calls that armed an accept
    nListenFail,     \* ghost: Listen calls that failed (no local endpoint)
    nAcceptOk,       \* ghost: accepts completed without error
    nAcceptErr,      \* ghost: accepts completed with an error
    nIncoming,       \* ghost: Incoming events emitted
    nListenErrors,   \* ghost: Error(LISTEN_ERROR) events emitted
    incomingAtError, \* ghost: nIncoming when the first accept error happened, else -1
    disconnectCalls, \* ghost: Disconnect calls since the descriptor was last opened
    disconnectEvents, \* ghost: Disconnect events these calls emitted
    wasOpen          \* ghost: the descriptor has been open at some time

\* ... the part Bind writes, the part SetOption writes, the part the accept loop writes.
bindVars == <<localEndpoint, socketOpen, socketBound, bindPending, lastBind>>

optionVars == <<socketOptionQueue, socketReuseAddr, acceptorReuseAddr>>

listenVars == <<tcpAcceptor, acceptPending, listenResult, nListenOk, nListenFail, nAcceptOk, nAcceptErr,
                nIncoming, nListenErrors, incomingAtError>>

disconnectVars == <<disconnectCalls, disconnectEvents, wasOpen>>

acceptVars == <<bindVars, optionVars, listenVars, disconnectVars>>

VARIABLES
    \* ---- receive loop of one TCP socket: ReceiveHandler / Callback / Execute ----
    sent,        \* ghost: the bytes the peer sent on the connection
    remaining,   \* the bytes not yet read from the connection
    reading,     \* an async_read_some is pending
    recvQueue,   \* the Receive callbacks queued: ReceiveData [data, dataLength]
    delivered,   \* ghost: concatenation of the payloads the receive handler got
    lastData,    \* the string pushed to the handler by the last dispatch
    lastSize,    \* the length cell pushed to the handler by the last dispatch
    lastBytes,   \* ghost: the bytes argument of the read behind the last dispatch
    nDisconnects \* ghost: Disconnect events emitted by the receive loop

recvVars == <<sent, remaining, reading, recvQueue, delivered, lastData, lastSize,
              lastBytes, nDisconnects>>

VARIABLES
    \* ---- dual-stack options and Connect of one TCP socket ----
    ipv6Only,         \* Socket::ipv6Only_
    preferIPv6,       \* Socket::preferIPv6_
    preferIPv4,       \* Socket::preferIPv4_
    lastOption,       \* ghost: the last SetOption call [so, value]
    clearedByLast,    \* ghost: the preference flag that call switched off as a side
                      \* effect of setting the other one, else "none"
    connPc,           \* "idle", "resolving", "connecting", "connected", "failed"
    connectAsync,     \* the async argument of the Connect call
    results,          \* the resolver's result list: <<[family, accepts]>>
    endpointIterator, \* the index of the endpoint of the pending async_connect
    selected,         \* ghost: what SelectPreferredEndpoint returned
    selectedUnder,    \* ghost: the flags it read
    tried,            \* ghost: the endpoints a connect was attempted on, in order
    nConnectEvents,   \* ghost: Connect events emitted
    nConnectErrors,   \* ghost: Error(CONNECT_ERROR) events emitted
    nNoHost           \* ghost: Error(NO_HOST) events emitted

connVars == <<ipv6Only, preferIPv6, preferIPv4, lastOption, clearedByLast, connPc,
              connectAsync, results, endpointIterator, selected, selectedUnder, tried,
              nConnectEvents, nConnectErrors, nNoHost>>

VARIABLES
    \* ---- Connect of one TLS socket (SocketTLS) ----
    tlsPc,             \* "idle", "resolving", "connecting", "handshaking", "connected", "failed"
    tlsAsync,          \* the async argument of the Connect call
    hostname,          \* SocketTLS::hostname_
    lowestLayerOpen,   \* sslSocket_->lowest_layer().is_open()
    tcpConnected,      \* the descriptor is connected to the peer
    verifyPeer,        \* SocketTLS::verifyPeer_
    verifyHost,        \* SocketTLS::verifyHost_
    verifyMode,        \* the verify mode of sslSocket_: "peer" or "none"
    verifyCallbackSet, \* set_verify_callback was called on sslSocket_
    tlsReading,        \* an async_read_some is armed on sslSocket_
    tlsEvents,         \* the events this socket queued, in order
    handshakeState,    \* ghost: "none", "ok", "failed": how the last handshake ended
    lastVerify,        \* ghost: the last call of VerifyCertificate and its result
    openAtFailure,     \* ghost: is_open() when the last Connect failed
    nTlsConnects       \* ghost: Connect calls made

tlsVars == <<tlsPc, tlsAsync, hostname, lowestLayerOpen, tcpConnected, verifyPeer,
             verifyHost, verifyMode, verifyCallbackSet, tlsReading, tlsEvents,
             handshakeState, lastVerify, openAtFailure, nTlsConnects>>

VARIABLES
    \* ---- the callback-queue mutex during a drain ----
    callbackQueueMutex, \* CallbackHandler::callbackQueueMutex_: "free" or the thread holding it
    queueLength,        \* callbackQueue_.size()
    drainPc,            \* the consumer thread inside ExecuteQueuedCallbacks
    producerPc,         \* the reactor thread inside AddCallback
    nReentries,         \* ghost: AddCallback calls made from inside a handler
    nHandlers           \* ghost: handlers invoked

lockVars == <<callbackQueueMutex, queueLength, drainPc, producerPc, nReentries, nHandlers>>

VARIABLES
    \* ---- the reactor thread (SocketHandler::StartProcessing / StopProcessing) ----
    ioServiceProcessingThreadInitialized, \* SocketHandler::ioServiceProcessingThreadInitialized_
    ioServiceWork,     \* ioServiceWork_ is non-null: the keep-alive token exists
    ioServiceStopped,  \* ioService->stopped()
    threadPc,          \* the thread of ioServiceProcessingThread_: "none", "running",
                       \* "inCallback", "exited"
    liveThreads,       \* threads that entered RunIoService and have not left it
    pendingHandlers,   \* completion handlers ready to run on the io_service
    stopPc,            \* the consumer thread inside StopProcessing: "idle", "joining"
    lastStart,         \* ghost: "none", "created", "noop"
    lastStop,          \* ghost: "none", "joined", "noop"
    stopMidCallback,   \* ghost: the last StopProcessing found the thread inside a handler
    nStarts,           \* ghost: StartProcessing calls
    nStops             \* ghost: StopProcessing calls

reactorVars == <<ioServiceProcessingThreadInitialized, ioServiceWork, ioServiceStopped,
                 threadPc, liveThreads, pendingHandlers, stopPc, lastStart, lastStop,
                 stopMidCallback, nStarts, nStops>>

VARIABLES
    \* ---- TLS sockets and the SSL context (SocketHandler::GetSSLContext) ----
    sslContext,        \* SocketHandler::sslContext_: NoContext or the id of the context
    contextMaterial,   \* per context: the certificate, key and CA files loaded in it
    tlsSockets,        \* the TLS sockets created
    socketContext,     \* per TLS socket: SocketTLS::sslContext_
    socketFiles,       \* per TLS socket: certificateFile_, privateKeyFile_, caFile_
    streamMaterial,    \* per TLS socket: the certificate and key sslSocket_ took from
                       \* the context when it was constructed
    lastTlsOption,     \* ghost: the last SetTLSOption call
    nTlsOptions        \* ghost: SetTLSOption calls

ctxVars == <<sslContext, contextMaterial, tlsSockets, socketContext, socketFiles,
             streamMaterial, lastTlsOption, nTlsOptions>>

VARIABLES
    \* ---- the synchronous entry points of one TCP socket, call by call ----
    lastCall,     \* ghost: the last synchronous call: what it was, how it ended, what
                  \* it returned and the events it queued
    syncEvents,   \* the events the synchronous calls queued, in order
    nSyncCalls    \* ghost: synchronous calls made

syncVars == <<lastCall, syncEvents, nSyncCalls>>

VARIABLES
    \* ---- a TCP socket and a TLS session given the same calls and completions ----
    tcpSide,        \* the TCP socket: [armed, trace, sendQueueLength]: reads pending,
                    \* events queued in order, Socket::sendQueueLength
    tlsSide,        \* the TLS session, the same fields (SocketTLS::sendQueueLength)
    writesInFlight, \* async writes issued on each and not yet completed
    emptyCallback,  \* sendqueueEmptyCallback, set alike on both
    terminals,      \* ghost: terminal completions (eof, reset, other error) so far
    nInputs         \* ghost: calls and completions applied so far

pairVars == <<tcpSide, tlsSide, writesInFlight, emptyCallback, terminals, nInputs>>

VARIABLES
    \* ---- an async Connect of a TCP socket and of a TLS socket, same resolver result ----
    resolved,      \* the resolver's result list handed to both ConnectPostResolveHandlers
    optionsSet,    \* the dual-stack flags the same SetOption calls were made for on both
    tcpConnect,    \* [tried, event]: the endpoints the TCP socket tried, and how it ended
    tlsConnect,    \* the same for the TLS socket, up to the start of the handshake
    udpConnect,    \* the same for a UDP socket
    cmpAsync,      \* the async argument of the Connect calls
    nResolved      \* ghost: Connects compared

cmpVars == <<resolved, optionsSet, tcpConnect, tlsConnect, udpConnect, cmpAsync,
            nResolved>>

VARIABLES
    \* ---- the outstanding-send counter of a UDP socket ----
    udpSendQueueLength, \* Socket<udp>::sendQueueLength (std::atomic<unsigned int>)
    udpEmptyCallback,   \* sendqueueEmptyCallback is non-null
    pendingSends,       \* async_send operations issued by Send and not completed
    pendingResolves,    \* async_resolve operations issued by SendTo and not completed
    pendingSendTos,     \* async_send_to operations issued and not completed
    lastSendEvent,      \* the event the last step queued, or "none"
    nSendOps            \* ghost: Send / SendTo calls so far

cntVars == <<udpSendQueueLength, udpEmptyCallback, pendingSends, pendingResolves,
             pendingSendTos, lastSendEvent, nSendOps>>

VARIABLES
    \* ---- one successful accept, statement by statement ----
    acceptStep,     \* what ListenIncomingHandler does next on the reactor thread, or "done"
    acceptedSocket, \* newSocket: the child the handler is working on (0: none)
    childSockets,   \* the children registered with the SocketHandler
    childReads,     \* the children with an async_read_some pending
    acceptIssued,   \* an async_accept is pending on the acceptor
    inserted,       \* every AddCallback insertion so far, in queue order: [event, socket]
    stepLog,        \* ghost: the statements executed for each child, in order
    nArrivals       \* ghost: accept completions so far

childVars == <<acceptStep, acceptedSocket, childSockets, childReads, acceptIssued, inserted,
               stepLog, nArrivals>>

VARIABLES
    \* ---- the address family of the descriptor a Bind or a Connect opens ----
    descriptor,    \* socket_: "closed", or the family it was opened with
    familyFlags,   \* ipv6Only_, preferIPv6_, preferIPv4_
    lastOpen,      \* the last Bind / Connect: [op, wasClosed, endpoint, descriptor, ok,
                   \* flags]
    nFamilyOps     \* ghost: Bind, Connect and Disconnect calls so far

familyVars == <<descriptor, familyFlags, lastOpen, nFamilyOps>>

VARIABLES
    \* ---- teardown of a socket against a completion handler ----
    socketListMutex,  \* SocketHandler::socketListMutex_: "none", or the thread holding it
    socketMutex,      \* Socket::socketMutex_: "none", or the thread holding it
    handlerShared,    \* shared locks on Socket::handlerMutex_ held by continuations
    inSocketList,     \* the socket's wrapper is in socketList_
    instance,         \* the Socket object: "live" or "released"
    descriptorOpen,   \* socket_->is_open()
    continuations,    \* completions pending on the reactor that capture `this`
    destroyPc,        \* consumer thread inside DestroySocket
    handlerPc,        \* reactor thread inside BindPostResolveHandler
    underListMutex,   \* ghost: what was done while socketListMutex_ was held
    ranOnReleased,    \* ghost: a continuation ran on the released instance
    nIssued           \* ghost: async Binds issued

teardownVars == <<socketListMutex, socketMutex, handlerShared, inSocketList, instance,
                  descriptorOpen, continuations, destroyPc, handlerPc, underListMutex,
                  ranOnReleased, nIssued>>

VARIABLES
    \* ---- the option queue of a TLS socket and its replay ----
    tlsOptionQueue,   \* SocketTLS::socketOptionQueue_
    replayPc,         \* "idle"; inside InitializeSocket: "test" (the loop's test) or
                      \* "apply" (an option popped); "done" once it has returned
    poppedOption,     \* opt: the option popped and not yet applied, or "none"
    appliedOptions    \* the options SetOption has handled itself

replayVars == <<tlsOptionQueue, replayPc, poppedOption, appliedOptions>>

VARIABLES
    \* ---- a local Disconnect() on a connected TCP socket and on a TLS session ----
    closingTcp,     \* the TCP socket: [armed, trace, sendQueueLength], as in tcpSide
    closingTls,     \* the TLS session, likewise
    isOpen,         \* is_open() of the descriptors
    readCancelled,  \* the close cancelled the pending read; its completion is due
    traceAtClose,   \* ghost: the length of the TCP trace before the last Disconnect()
                    \* that closed the descriptor, -1 before any
    nCloseInputs    \* ghost: read completions and Disconnect calls so far

closeVars == <<closingTcp, closingTls, isOpen, readCancelled, traceAtClose, nCloseInputs>>

VARIABLES
    \* ---- events of operations that outlive their socket ----
    allocated,      \* address -> the incarnation registered at it, NoIncarnation if none
    callbacksSet,   \* the incarnations whose plugin callbacks are set
    outstanding,    \* operations at the reactor: [this, issuer], `this` an address
    boundEvents,    \* the callback queue: [socketWrapper, issuer]
    deliveries,     \* ghost: the handler runs so far: [receiver, issuer]
    nIncarnations,  \* sockets created so far
    reuseCrashed    \* the process died on a freed wrapper

reuseVars == <<allocated, callbacksSet, outstanding, boundEvents, deliveries,
               nIncarnations, reuseCrashed>>

vars == <<engineVars, sendVars, acceptVars, recvVars, connVars, tlsVars, lockVars, reactorVars, ctxVars, syncVars, pairVars, cmpVars, cntVars, childVars, familyVars, teardownVars, replayVars, closeVars, reuseVars>>

\* The variables each group of actions leaves alone.
notEngine == <<sendVars, acceptVars, recvVars, connVars, tlsVars, lockVars, reactorVars, ctxVars, syncVars, pairVars, cmpVars, cntVars, childVars, familyVars, teardownVars, replayVars, closeVars, reuseVars>>

notSend == <<engineVars, acceptVars, recvVars, connVars, tlsVars, lockVars, reactorVars, ctxVars, syncVars, pairVars, cmpVars, cntVars, childVars, familyVars, teardownVars, replayVars, closeVars, reuseVars>>

notAccept == <<engineVars, sendVars, recvVars, connVars, tlsVars, lockVars, reactorVars, ctxVars, syncVars, pairVars, cmpVars, cntVars, childVars, familyVars, teardownVars, replayVars, closeVars, reuseVars>>

notRecv == <<engineVars, sendVars, acceptVars, connVars, tlsVars, lockVars, reactorVars, ctxVars, syncVars, pairVars, cmpVars, cntVars, childVars, familyVars, teardownVars, replayVars, closeVars, reuseVars>>

notConn == <<engineVars, sendVars, acceptVars, recvVars, tlsVars, lockVars, reactorVars, ctxVars, syncVars, pairVars, cmpVars, cntVars, childVars, familyVars, teardownVars, replayVars, closeVars, reuseVars>>

notTls == <<engineVars, sendVars, acceptVars, recvVars, connVars, lockVars, reactorVars, ctxVars, syncVars, pairVars, cmpVars, cntVars, childVars, familyVars, teardownVars, replayVars, closeVars, reuseVars>>

notLock == <<engineVars, sendVars, acceptVars, recvVars, connVars, tlsVars, reactorVars, ctxVars, syncVars, pairVars, cmpVars, cntVars, childVars, familyVars, teardownVars, replayVars, closeVars, reuseVars>>

notReactor == <<engineVars, sendVars, acceptVars, recvVars, connVars, tlsVars, lockVars, ctxVars, syncVars, pairVars, cmpVars, cntVars, childVars, familyVars, teardownVars, replayVars, closeVars, reuseVars>>

notCtx == <<engineVars, sendVars, acceptVars, recvVars, connVars, tlsVars, lockVars, reactorVars, syncVars, pairVars, cmpVars, cntVars, childVars, familyVars, teardownVars, replayVars, closeVars, reuseVars>>

notSync == <<engineVars, sendVars, acceptVars, recvVars, connVars, tlsVars, lockVars, reactorVars, ctxVars, pairVars, cmpVars, cntVars, childVars, familyVars, teardownVars, replayVars, closeVars, reuseVars>>

notPair == <<engineVars, sendVars, acceptVars, recvVars, connVars, tlsVars, lockVars, reactorVars, ctxVars, syncVars, cmpVars, cntVars, childVars, familyVars, teardownVars, replayVars, closeVars, reuseVars>>

notCmp == <<engineVars, sendVars, acceptVars, recvVars, connVars, tlsVars, lockVars, reactorVars, ctxVars, syncVars, pairVars, cntVars, childVars, familyVars, teardownVars, replayVars, closeVars, reuseVars>>

notCnt == <<engineVars, sendVars, acceptVars, recvVars, connVars, tlsVars, lockVars, reactorVars, ctxVars, syncVars, pairVars, cmpVars, childVars, familyVars, teardownVars, replayVars, closeVars, reuseVars>>

notChild == <<engineVars, sendVars, acceptVars, recvVars, connVars, tlsVars, lockVars, reactorVars, ctxVars, syncVars, pairVars, cmpVars, cntVars, familyVars, teardownVars, replayVars, closeVars, reuseVars>>

notFamily == <<engineVars, sendVars, acceptVars, recvVars, connVars, tlsVars, lockVars, reactorVars, ctxVars, syncVars, pairVars, cmpVars, cntVars, childVars, teardownVars, replayVars, closeVars, reuseVars>>

notTeardown == <<engineVars, sendVars, acceptVars, recvVars, connVars, tlsVars, lockVars, reactorVars, ctxVars, syncVars, pairVars, cmpVars, cntVars, childVars, familyVars, replayVars, closeVars, reuseVars>>

notReplay == <<engineVars, sendVars, acceptVars, recvVars, connVars, tlsVars, lockVars, reactorVars, ctxVars, syncVars, pairVars, cmpVars, cntVars, childVars, familyVars, teardownVars, closeVars, reuseVars>>

notClose == <<engineVars, sendVars, acceptVars, recvVars, connVars, tlsVars, lockVars, reactorVars, ctxVars, syncVars, pairVars, cmpVars, cntVars, childVars, familyVars, teardownVars, replayVars, reuseVars>>

notReuse == <<engineVars, sendVars, acceptVars, recvVars, connVars, tlsVars, lockVars, reactorVars, ctxVars, syncVars, pairVars, cmpVars, cntVars, childVars, familyVars, teardownVars, replayVars, closeVars>>

(***************************************************************************)
(* Registry: SocketHandler.                                                *)
(***************************************************************************)
Ids == 1..Len(wrappers)

Registered == {socketList[i] : i \in 1..Len(socketList)}

IsRegistered(w) == w \in Registered

LiveAddrs == {wrappers[w].socket : w \in Registered}

\* The addresses operator new may return for the next Socket: one released earlier
\* (the allocator reuses memory) or a fresh one. Addresses are interchangeable, so
\* the fresh one is the lowest never handed out.
FreeAddrs ==
    LET used == {wrappers[w].socket : w \in 1..Len(wrappers)}
    IN  (used \ LiveAddrs) \cup {Cardinality(used) + 1}

\* A lookup that returns the first entry whatever identity is asked for.
GetFirstWrapper(socket) == IF socketList = <<>> THEN NoWrapper ELSE socketList[1]

\* SocketHandler::GetSocketWrapper: the first registered wrapper whose socket is `socket`.
GetSocketWrapper(socket) ==
    LET hits == {i \in 1..Len(socketList) : wrappers[socketList[i]].socket = socket}
    IN  IF hits = {} THEN NoWrapper
        ELSE socketList[CHOOSE i \in hits : \A j \in hits : i <= j]

\* The list without the element at position i (deque::erase).
EraseAt(list, i) == SubSeq(list, 1, i - 1) \o SubSeq(list, i + 1, Len(list))

\* SocketHandler::DestroySocket: erase the wrapper from socketList_ (which releases
\* the wrapper and, through ~SocketWrapper, the socket). Nothing else.
DestroySocketList(list, sw) ==
    LET hits == {i \in 1..Len(list) : list[i] = sw}
    IN  IF hits = {} THEN list
        ELSE EraseAt(list, CHOOSE i \in hits : \A j \in hits : i <= j)

(***************************************************************************)
(* Callback queue: CallbackHandler.                                        *)
(***************************************************************************)
\* Callback::Callback: the wrapper is looked up when the event is constructed.
NewCallback(callbackEvent, socket, newSocket) ==
    [callbackEvent |-> callbackEvent, socketWrapper |-> GetSocketWrapper(socket),
     newSocket |-> newSocket, seq |-> nextSeq + 1]

\* CallbackHandler::AddCallback: push_back under the queue mutex.
AddCallback(queue, callback) == Append(queue, callback)

\* CallbackHandler::RemoveCallbacks: erase(remove_if(socketWrapper_ == sw)).
RemoveCallbacks(queue, sw) == SelectSeq(queue, LAMBDA cb : cb.socketWrapper # sw)

\* A fetch that takes the newest callback instead of the oldest (back() / pop_back()).
FetchLastCallback(queue) ==
    [callback |-> queue[Len(queue)], rest |-> SubSeq(queue, 1, Len(queue) - 1)]

\* A fetch that returns the front callback and leaves it in the queue.
FetchWithoutPop(queue) == [callback |-> Head(queue), rest |-> queue]

\* CallbackHandler::FetchFirstCallback: front() / pop_front() under the queue mutex.
FetchFirstCallback(queue) == [callback |-> Head(queue), rest |-> Tail(queue)]

(***************************************************************************)
(* Callback: IsValid, IsExecutable, Execute.                               *)
(***************************************************************************)
IsValid(cb) == cb.socketWrapper # NoWrapper

\* Callback::IsExecutable, on the wrapper's type and the socket's handler fields.
IsExecutable(ev, socketType, hs) ==
    CASE ev = "Connect"        -> socketType = "Tcp" /\ "Connect" \in hs
      [] ev = "Disconnect"     -> socketType = "Tcp" /\ "Disconnect" \in hs
      [] ev = "Incoming"       -> socketType = "Tcp" /\ "Incoming" \in hs
      [] ev = "Receive"        -> \/ (socketType = "Tcp" /\ "Receive" \in hs)
                                  \/ (socketType = "Udp" /\ "Receive" \in hs)
      [] ev = "SendQueueEmpty" -> \/ (socketType = "Tcp" /\ "SendQueueEmpty" \in hs)
                                  \/ (socketType = "Udp" /\ "SendQueueEmpty" \in hs)
      [] ev = "Error"          -> \/ (socketType = "Tcp" /\ "Error" \in hs)
                                  \/ (socketType = "Udp" /\ "Error" \in hs)
      [] OTHER                 -> FALSE

\* Callback::ExecuteHelper<tcp|udp>: whether the handler is invoked.
ExecuteHelper(cb, hs) ==
    CASE cb.callbackEvent = "Incoming" ->
            "Incoming" \in hs /\ GetSocketWrapper(cb.newSocket) # NoWrapper
      [] OTHER -> cb.callbackEvent \in hs

\* Callback::ExecuteHelperTLS: whether the handler is invoked.
ExecuteHelperTLS(cb, hs) ==
    CASE cb.callbackEvent = "Incoming" -> FALSE
      [] OTHER -> cb.callbackEvent \in hs

\* Callback::Execute: dispatch on the wrapper's socket type.
Execute(cb, socketType, hs) ==
    CASE socketType = "Tcp" -> ExecuteHelper(cb, hs)
      [] socketType = "Udp" -> ExecuteHelper(cb, hs)
      [] socketType = "Tls" -> ExecuteHelperTLS(cb, hs)
      [] OTHER -> FALSE

(***************************************************************************)
(* Engine actions.                                                         *)
(***************************************************************************)
EngineInit ==
    /\ wrappers = <<>>
    /\ socketList = <<>>
    /\ handlers = <<>>
    /\ callbackQueue = <<>>
    /\ fetched = NoCallback
    /\ inflight = {}
    /\ nextSeq = 0
    /\ lastDrain = "none"
    /\ crashed = FALSE
    /\ nCreated = 0
    /\ nAccepted = 0
    /\ kinds \in {{k} : k \in EventKinds}

\* The consumer thread is free (not between a fetch and its execution).
ConsumerIdle == ~crashed /\ fetched = NoCallback

\* SocketHandler::CreateSocket / CreateTLSSocket: allocate and register.
CreateSocket(st) ==
    /\ ConsumerIdle
    /\ nCreated < MaxCreate
    /\ nCreated' = nCreated + 1
    /\ \E a \in FreeAddrs :
          /\ wrappers' = Append(wrappers, [socket |-> a, socketType |-> st])
          /\ socketList' = Append(socketList, Len(wrappers) + 1)
          /\ handlers' = Append(handlers, {})
    /\ UNCHANGED notEngine
    /\ UNCHANGED <<callbackQueue, fetched, inflight, nextSeq, lastDrain, crashed,
                   nAccepted, kinds>>

\* The bridge stores a plugin function in one of the socket's callback fields.
RegisterHandler(w, k) ==
    /\ ConsumerIdle
    /\ IsRegistered(w)
    /\ k \notin handlers[w]
    /\ handlers' = [handlers EXCEPT ![w] = @ \cup {k}]
    /\ UNCHANGED notEngine
    /\ UNCHANGED <<wrappers, socketList, callbackQueue, fetched, inflight, nextSeq,
                   lastDrain, crashed, nCreated, nAccepted, kinds>>

\* A synchronous operation of the consumer thread that emits an event for its
\* socket (Disconnect(), a failed synchronous Bind/Connect/Send, ...).
SyncEmit(w, k) ==
    /\ ConsumerIdle
    /\ IsRegistered(w)
    /\ nextSeq < MaxEvents
    /\ k # "Incoming"
    /\ callbackQueue' = AddCallback(callbackQueue, NewCallback(k, wrappers[w].socket, 0))
    /\ nextSeq' = nextSeq + 1
    /\ UNCHANGED notEngine
    /\ UNCHANGED <<wrappers, socketList, handlers, fetched, inflight,
                   lastDrain, crashed, nCreated, nAccepted, kinds>>

\* An asynchronous operation is handed to the reactor; its continuation captures `this`.
IssueAsync(w) ==
    /\ ConsumerIdle
    /\ IsRegistered(w)
    /\ inflight' = inflight \cup {[this |-> wrappers[w].socket, owner |-> w]}
    /\ inflight' # inflight
    /\ UNCHANGED notEngine
    /\ UNCHANGED <<wrappers, socketList, handlers, callbackQueue, fetched, nextSeq,
                   lastDrain, crashed, nCreated, nAccepted, kinds>>

\* The reactor thread runs a completion handler, which emits an event for `this`.
Complete(op, k) ==
    /\ ~crashed
    /\ op \in inflight
    /\ nextSeq < MaxEvents
    /\ k # "Incoming"
    /\ callbackQueue' = AddCallback(callbackQueue, NewCallback(k, op.this, 0))
    /\ nextSeq' = nextSeq + 1
    /\ inflight' = inflight \ {op}
    /\ UNCHANGED notEngine
    /\ UNCHANGED <<wrappers, socketList, handlers, fetched, lastDrain, crashed,
                   nCreated, nAccepted, kinds>>

\* Socket<tcp>::ListenIncomingHandler on success: register the child, emit Incoming
\* for the listener, keep accepting.
CompleteAccept(op) ==
    /\ ~crashed
    /\ op \in inflight
    /\ nextSeq < MaxEvents
    /\ "Incoming" \in kinds
    /\ IsRegistered(op.owner)
    /\ wrappers[op.owner].socketType = "Tcp"
    /\ nAccepted < MaxAccept
    /\ nAccepted' = nAccepted + 1
    /\ \E a \in FreeAddrs :
          /\ wrappers' = Append(wrappers, [socket |-> a, socketType |-> "Tcp"])
          /\ socketList' = Append(socketList, Len(wrappers) + 1)
          /\ handlers' = Append(handlers, {})
          /\ callbackQueue' = AddCallback(callbackQueue,
                [callbackEvent |-> "Incoming", socketWrapper |-> GetSocketWrapper(op.this),
                 newSocket |-> a, seq |-> nextSeq + 1])
    /\ nextSeq' = nextSeq + 1
    /\ UNCHANGED notEngine
    /\ UNCHANGED <<fetched, inflight, lastDrain, crashed, nCreated, kinds>>

\* SocketHandler::DestroySocket.
DestroySocket(w) ==
    /\ ConsumerIdle
    /\ IsRegistered(w)
    /\ socketList' = DestroySocketList(socketList, w)
    /\ UNCHANGED notEngine
    /\ UNCHANGED <<wrappers, handlers, callbackQueue, fetched, inflight, nextSeq,
                   lastDrain, crashed, nCreated, nAccepted, kinds>>

\* CallbackHandler::RemoveCallbacks, called for a registered wrapper.
PurgeCallbacks(w) ==
    /\ ConsumerIdle
    /\ IsRegistered(w)
    /\ callbackQueue' = RemoveCallbacks(callbackQueue, w)
    /\ callbackQueue' # callbackQueue
    /\ UNCHANGED notEngine
    /\ UNCHANGED <<wrappers, socketList, handlers, fetched, inflight, nextSeq,
                   lastDrain, crashed, nCreated, nAccepted, kinds>>

\* ExecuteQueuedCallbacks, first half of an iteration: FetchFirstCallback.
DrainFetch ==
    /\ ConsumerIdle
    /\ callbackQueue # <<>>
    /\ fetched' = FetchFirstCallback(callbackQueue).callback
    /\ callbackQueue' = FetchFirstCallback(callbackQueue).rest
    /\ UNCHANGED notEngine
    /\ UNCHANGED <<wrappers, socketList, handlers, inflight, nextSeq, lastDrain, crashed,
                   nCreated, nAccepted, kinds>>

DrainRecord(dispatched) == IF dispatched THEN "dispatched" ELSE "discarded"

\* ExecuteQueuedCallbacks, second half: IsValid() && IsExecutable() then Execute(),
\* outside the queue lock, for a callback whose wrapper is null or still registered.
DrainExecute ==
    /\ ~crashed
    /\ fetched # NoCallback
    /\ ~IsValid(fetched) \/ IsRegistered(fetched.socketWrapper)
    /\ LET w == fetched.socketWrapper
       IN  lastDrain' = DrainRecord(
               /\ IsValid(fetched)
               /\ IsExecutable(fetched.callbackEvent, wrappers[w].socketType, handlers[w])
               /\ Execute(fetched, wrappers[w].socketType, handlers[w]))
    /\ fetched' = NoCallback
    /\ UNCHANGED notEngine
    /\ UNCHANGED <<wrappers, socketList, handlers, callbackQueue, inflight, nextSeq,
                   crashed, nCreated, nAccepted, kinds>>

\* The same half for a callback whose wrapper was released by DestroySocket: the
\* callback's wrapper pointer is not checked against the registry, so IsExecutable()
\* and Execute() read freed memory. What the build does then is any of: the stale
\* fields still read as they were (the handler runs if it was set), they read as
\* garbage that fails the test (the callback is dropped), or the process dies.
DrainExecuteDangling(outcome) ==
    /\ ~crashed
    /\ fetched # NoCallback
    /\ IsValid(fetched) /\ ~IsRegistered(fetched.socketWrapper)
    /\ LET w == fetched.socketWrapper
       IN  lastDrain' = DrainRecord(
               /\ outcome = "stale"
               /\ IsExecutable(fetched.callbackEvent, wrappers[w].socketType, handlers[w])
               /\ Execute(fetched, wrappers[w].socketType, handlers[w]))
    /\ crashed' = (outcome = "crash")
    /\ fetched' = NoCallback
    /\ UNCHANGED notEngine
    /\ UNCHANGED <<wrappers, socketList, handlers, callbackQueue, inflight, nextSeq,
                   nCreated, nAccepted, kinds>>

EngineNext ==
    \/ \E st \in SocketTypes : CreateSocket(st)
    \/ \E w \in Ids, k \in kinds : RegisterHandler(w, k)
    \/ \E w \in Ids, k \in kinds : SyncEmit(w, k)
    \/ \E w \in Ids : IssueAsync(w)
    \/ \E op \in inflight, k \in kinds : Complete(op, k)
    \/ \E op \in inflight : CompleteAccept(op)
    \/ \E w \in Ids : DestroySocket(w)
    \/ \E w \in Ids : PurgeCallbacks(w)
    \/ DrainFetch
    \/ DrainExecute
    \/ \E outcome \in {"stale", "skip", "crash"} : DrainExecuteDangling(outcome)

(***************************************************************************)
(* The send path: Socket<tcp>::Send and Socket::SendPostSendHandler.       *)
(***************************************************************************)
SendInit ==
    /\ sendQueueLength = 0
    /\ sendqueueEmptyCallback \in BOOLEAN
    /\ writes = 0
    /\ reactorPc = "idle"
    /\ consumerPc = "idle"
    /\ nSends = 0
    /\ nSync = 0
    /\ nStarted = 0
    /\ nDrained = 0
    /\ nSendErrors = 0
    /\ burst = TRUE

\* The test `sendQueueLength == 0 && sendqueueEmptyCallback`.
QueueDrainedAlways(len, cb) == cb

QueueDrained(len, cb) == len = 0 /\ cb

\* After the decrement: Error(SEND_ERROR) on failure, else SendQueueEmpty if drained.
EmitAfterSend(ec) ==
    /\ nSendErrors' = IF ec = "err" THEN nSendErrors + 1 ELSE nSendErrors
    /\ nDrained' = IF ec = "ok" /\ QueueDrained(sendQueueLength, sendqueueEmptyCallback)
                   THEN nDrained + 1 ELSE nDrained

\* Send(data, async = true): count the send, hand the write to the reactor.
SendAsync ==
    /\ consumerPc = "idle"
    /\ nSends < MaxSends
    /\ sendQueueLength' = sendQueueLength + 1
    /\ writes' = writes + 1
    /\ nSends' = nSends + 1
    /\ burst' = (burst /\ nStarted = 0)
    /\ UNCHANGED notSend
    /\ UNCHANGED <<sendqueueEmptyCallback, reactorPc, consumerPc, nSync, nStarted,
                   nDrained, nSendErrors>>

\* Send(data, async = false): count the send and write on the consumer thread.
SendSyncWrite(ec) ==
    /\ consumerPc = "idle"
    /\ nSends < MaxSends
    /\ sendQueueLength' = sendQueueLength + 1
    /\ consumerPc' = IF ec = "ok" THEN "w_ok" ELSE "w_err"
    /\ nSends' = nSends + 1
    /\ nSync' = nSync + 1
    /\ UNCHANGED notSend
    /\ UNCHANGED <<sendqueueEmptyCallback, writes, reactorPc, nStarted, nDrained,
                   nSendErrors, burst>>

\* ... `sendQueueLength--` after the write returned.
SendSyncDecrement ==
    /\ consumerPc \in {"w_ok", "w_err"}
    /\ sendQueueLength' = sendQueueLength - 1
    /\ consumerPc' = IF consumerPc = "w_ok" THEN "d_ok" ELSE "d_err"
    /\ UNCHANGED notSend
    /\ UNCHANGED <<sendqueueEmptyCallback, writes, reactorPc, nSends, nSync, nStarted,
                   nDrained, nSendErrors, burst>>

\* ... the error test and the drained test, then Send returns.
SendSyncFinish ==
    /\ consumerPc \in {"d_ok", "d_err"}
    /\ EmitAfterSend(IF consumerPc = "d_ok" THEN "ok" ELSE "err")
    /\ consumerPc' = "idle"
    /\ UNCHANGED notSend
    /\ UNCHANGED <<sendQueueLength, sendqueueEmptyCallback, writes, reactorPc, nSends,
                   nSync, nStarted, burst>>

\* SendPostSendHandler, first statement: `sendQueueLength--`.
SendPostSendHandlerDecrement(ec) ==
    /\ reactorPc = "idle"
    /\ writes > 0
    /\ writes' = writes - 1
    /\ sendQueueLength' = sendQueueLength - 1
    /\ reactorPc' = ec
    /\ nStarted' = nStarted + 1
    /\ UNCHANGED notSend
    /\ UNCHANGED <<sendqueueEmptyCallback, consumerPc, nSends, nSync, nDrained,
                   nSendErrors, burst>>

\* SendPostSendHandler, the rest: the error test and the drained test.
SendPostSendHandlerFinish ==
    /\ reactorPc # "idle"
    /\ EmitAfterSend(reactorPc)
    /\ reactorPc' = "idle"
    /\ UNCHANGED notSend
    /\ UNCHANGED <<sendQueueLength, sendqueueEmptyCallback, writes, consumerPc, nSends,
                   nSync, nStarted, burst>>

SendNext ==
    \/ SendAsync
    \/ \E ec \in {"ok", "err"} : SendSyncWrite(ec)
    \/ SendSyncDecrement
    \/ SendSyncFinish
    \/ \E ec \in {"ok", "err"} : SendPostSendHandlerDecrement(ec)
    \/ SendPostSendHandlerFinish

(***************************************************************************)
(* The accept loop: Socket<tcp>::Listen and ListenIncomingHandler.         *)
(***************************************************************************)
AcceptInit ==
    /\ localEndpoint = FALSE
    /\ socketOpen = FALSE
    /\ socketBound = FALSE
    /\ bindPending = FALSE
    /\ lastBind = "none"
    /\ socketOptionQueue = <<>>
    /\ socketReuseAddr = "default"
    /\ acceptorReuseAddr = "none"
    /\ tcpAcceptor = FALSE
    /\ acceptPending = 0
    /\ listenResult = "none"
    /\ nListenOk = 0
    /\ nListenFail = 0
    /\ nAcceptOk = 0
    /\ nAcceptErr = 0
    /\ nIncoming = 0
    /\ nListenErrors = 0
    /\ incomingAtError = -1
    /\ disconnectCalls = 0
    /\ disconnectEvents = 0
    /\ wasOpen = FALSE

\* A handler that arms the next accept whatever the outcome of this one.
RearmAlways(ec) == 1

\* The accepts ListenIncomingHandler arms before it returns: none after `if (ec) return`.
Rearm(ec) == IF ec = "ok" THEN 1 ELSE 0

\* How a Bind can end: the resolution fails, open() fails, bind() fails, or all succeed.
BindOutcomes == {"resolveError", "openError", "bindError", "ok"}

\* The body shared by Bind (sync branch) and BindPostResolveHandler: after the
\* resolution the local endpoint is recorded, the descriptor is opened if it is not
\* open, and bound. Every failure emits Error(BIND_ERROR) and returns.
BindBody(outcome) ==
    /\ outcome = "openError" => ~socketOpen
    /\ outcome = "ok" => ~socketBound
    /\ lastBind' = outcome
    /\ localEndpoint' = (localEndpoint \/ outcome # "resolveError")
    /\ socketOpen' = (socketOpen \/ outcome \in {"bindError", "ok"})
    /\ socketBound' = (socketBound \/ outcome = "ok")
    /\ IF ~socketOpen /\ socketOpen'
       THEN disconnectCalls' = 0 /\ disconnectEvents' = 0 /\ wasOpen' = TRUE
       ELSE UNCHANGED disconnectVars

\* Socket::Bind(host, port, async = false).
Bind(outcome) ==
    /\ BindBody(outcome)
    /\ UNCHANGED bindPending
    /\ UNCHANGED notAccept
    /\ UNCHANGED <<optionVars, listenVars>>

\* Socket::Bind(host, port, async = true): the resolution is handed to the reactor.
BindAsync ==
    /\ ~bindPending
    /\ bindPending' = TRUE
    /\ UNCHANGED notAccept
    /\ UNCHANGED <<localEndpoint, socketOpen, socketBound, lastBind, optionVars, listenVars,
                   disconnectVars>>

\* Socket::BindPostResolveHandler.
BindPostResolveHandler(outcome) ==
    /\ bindPending
    /\ bindPending' = FALSE
    /\ BindBody(outcome)
    /\ UNCHANGED notAccept
    /\ UNCHANGED <<optionVars, listenVars>>

OnOff(value) == IF value # 0 THEN "on" ELSE "off"

\* The descriptor-level part of Socket::SetOption for SocketReuseAddr, given which
\* descriptors are open: the option goes to socket_ if it is open, else to the
\* acceptor if there is one, else into the queue.
ApplyOption(st, value) ==
    IF st.socketOpen THEN [st EXCEPT !.socketReuseAddr = OnOff(value)]
    ELSE IF st.tcpAcceptor THEN [st EXCEPT !.acceptorReuseAddr = OnOff(value)]
    ELSE [st EXCEPT !.queue = Append(@, [option |-> "SocketReuseAddr", value |-> value])]

RECURSIVE ReplayOptions(_, _)
\* Listen's replay loop: SetOption(opt->option, opt->value, false) for each queued
\* option, oldest first, popping it.
ReplayOptions(st, pending) ==
    IF pending = <<>> THEN st
    ELSE ReplayOptions(ApplyOption(st, Head(pending).value), Tail(pending))

\* Socket::SetOption(SocketReuseAddr, value).
SetOptionReuseAddr(value) ==
    /\ ~socketOpen /\ ~tcpAcceptor => Len(socketOptionQueue) < MaxQueuedOptions
    /\ LET st == ApplyOption([socketOpen |-> socketOpen, tcpAcceptor |-> tcpAcceptor,
                              socketReuseAddr |-> socketReuseAddr,
                              acceptorReuseAddr |-> acceptorReuseAddr,
                              queue |-> socketOptionQueue], value)
       IN  /\ socketReuseAddr' = st.socketReuseAddr
           /\ acceptorReuseAddr' = st.acceptorReuseAddr
           /\ socketOptionQueue' = st.queue
    /\ UNCHANGED notAccept
    /\ UNCHANGED <<bindVars, listenVars, disconnectVars>>

\* A Disconnect that does not look at the descriptor.
DisconnectAlways(open) == TRUE

\* Disconnect acts only `if (socket_->is_open())`.
DisconnectActs(open) == open

\* Socket::Disconnect: an open descriptor is closed and a Disconnect event is
\* emitted; on a closed one nothing happens.
Disconnect ==
    /\ disconnectCalls < MaxDisconnects
    /\ disconnectCalls' = disconnectCalls + 1
    /\ IF DisconnectActs(socketOpen)
       THEN /\ socketOpen' = FALSE
            /\ socketBound' = FALSE
            /\ socketReuseAddr' = "default"
            /\ disconnectEvents' = disconnectEvents + 1
       ELSE UNCHANGED <<socketOpen, socketBound, socketReuseAddr, disconnectEvents>>
    /\ UNCHANGED notAccept
    /\ UNCHANGED <<localEndpoint, bindPending, lastBind, socketOptionQueue,
                   acceptorReuseAddr, listenVars, wasOpen>>

\* A Listen that needs no local endpoint.
CanListenUnbound(hasEndpoint, created) == created

\* Listen gets past the acceptor's creation: `if (!localEndpoint_) throw`, and
\* the constructor did not throw.
CanListen(hasEndpoint, created) == hasEndpoint /\ created

\* Socket<tcp>::Listen: without a local endpoint the logic_error is caught and
\* Error(LISTEN_ERROR) is emitted, as is an exception of the acceptor's
\* constructor (created = FALSE); otherwise the acceptor is created if needed,
\* the queued options are replayed, and one async_accept is armed.
Listen(created) ==
    /\ nListenOk + nListenFail < MaxListen
    /\ (~localEndpoint \/ tcpAcceptor) => created
    /\ IF CanListen(localEndpoint, created)
       THEN /\ tcpAcceptor' = TRUE
            /\ listenResult' = "true"
            /\ IF tcpAcceptor
               THEN UNCHANGED optionVars
               ELSE LET st == ReplayOptions([socketOpen |-> socketOpen, tcpAcceptor |-> TRUE,
                                             socketReuseAddr |-> socketReuseAddr,
                                             acceptorReuseAddr |-> "on",
                                             queue |-> <<>>], socketOptionQueue)
                    IN  /\ socketReuseAddr' = st.socketReuseAddr
                        /\ acceptorReuseAddr' = st.acceptorReuseAddr
                        /\ socketOptionQueue' = st.queue
            /\ acceptPending' = acceptPending + 1
            /\ nListenOk' = nListenOk + 1
            /\ UNCHANGED <<nListenFail, nListenErrors>>
       ELSE /\ nListenFail' = nListenFail + 1
            /\ nListenErrors' = nListenErrors + 1
            /\ listenResult' = "false"
            /\ UNCHANGED <<tcpAcceptor, optionVars, acceptPending, nListenOk>>
    /\ UNCHANGED notAccept
    /\ UNCHANGED <<bindVars, disconnectVars, nAcceptOk, nAcceptErr, nIncoming,
                   incomingAtError>>

\* Socket<tcp>::ListenIncomingHandler: on an error Error(LISTEN_ERROR) and return;
\* otherwise a child socket, an Incoming event and the next async_accept.
ListenIncomingHandler(ec) ==
    /\ acceptPending > 0
    /\ nAcceptOk + nAcceptErr < MaxConnections
    /\ acceptPending' = acceptPending - 1 + Rearm(ec)
    /\ IF ec = "ok"
       THEN /\ nIncoming' = nIncoming + 1
            /\ nAcceptOk' = nAcceptOk + 1
            /\ UNCHANGED <<nListenErrors, nAcceptErr, incomingAtError>>
       ELSE /\ nListenErrors' = nListenErrors + 1
            /\ nAcceptErr' = nAcceptErr + 1
            /\ incomingAtError' = IF incomingAtError = -1 THEN nIncoming ELSE incomingAtError
            /\ UNCHANGED <<nIncoming, nAcceptOk>>
    /\ UNCHANGED notAccept
    /\ UNCHANGED <<bindVars, optionVars, disconnectVars, tcpAcceptor, listenResult,
                   nListenOk, nListenFail>>

AcceptNext ==
    \/ \E outcome \in BindOutcomes : Bind(outcome)
    \/ BindAsync
    \/ \E outcome \in BindOutcomes : BindPostResolveHandler(outcome)
    \/ \E value \in {0, 1} : SetOptionReuseAddr(value)
    \/ Disconnect
    \/ \E created \in BOOLEAN : Listen(created)
    \/ \E ec \in {"ok", "err"} : ListenIncomingHandler(ec)

(***************************************************************************)
(* The receive loop: Socket<tcp>::ReceiveHandler, Callback (receive),      *)
(* Callback::ExecuteHelper (Receive).                                      *)
(***************************************************************************)
RECURSIVE SeqsUpTo(_)
\* All byte sequences of length at most n.
SeqsUpTo(n) ==
    IF n = 0 THEN {<<>>}
    ELSE LET shorter == SeqsUpTo(n - 1)
         IN  shorter \cup {Append(q, b) : q \in shorter, b \in Bytes}

Min(a, b) == IF a < b THEN a ELSE b

\* std::make_unique<char[]>(bufferSize): a zero-filled buffer.
NewBuffer(bufferSize) == [i \in 1..bufferSize |-> 0]

\* async_read_some: the first `bytes` bytes of the stream land at the start of the buffer.
ReadSome(buf, stream, bytes) ==
    [i \in 1..Len(buf) |-> IF i <= bytes THEN stream[i] ELSE buf[i]]

RECURSIVE StrLen(_, _)
\* strlen: the bytes before the first NUL, looking at most `limit` bytes ahead.
StrLen(buf, limit) ==
    IF limit = 0 \/ Len(buf) = 0 \/ buf[1] = 0 THEN 0
    ELSE 1 + StrLen(Tail(buf), limit - 1)

\* std::string(data): the constructor that stops at the first NUL.
CString(data, dataLength) == SubSeq(data, 1, StrLen(data, dataLength))

\* std::string(data, dataLength): exactly dataLength bytes, NUL included.
StdString(data, dataLength) == SubSeq(data, 1, dataLength)

\* IPluginFunction::PushStringEx(buffer, length, flags): a binary copy takes
\* `length` bytes, a string copy stops at the first NUL.
PushStringEx(buffer, length, binary) ==
    IF binary THEN SubSeq(buffer, 1, length) ELSE SubSeq(buffer, 1, StrLen(buffer, length))

\* Callback::Callback(Receive, socket, data, dataLength).
ReceiveData(data, dataLength) ==
    [data |-> StdString(data, dataLength), dataLength |-> dataLength]

RecvInit ==
    /\ sent \in SeqsUpTo(MaxStream)
    /\ remaining = sent
    /\ reading = TRUE
    /\ recvQueue = <<>>
    /\ delivered = <<>>
    /\ lastData = <<>>
    /\ lastSize = 0
    /\ lastBytes = 0
    /\ nDisconnects = 0

\* ReceiveHandler without error: `bytes` bytes were read into buf; a Receive
\* callback is queued with them and the next read is armed.
ReceiveHandler(bytes) ==
    /\ reading
    /\ bytes \in 1..Min(BufferSize, Len(remaining))
    /\ LET buf == ReadSome(NewBuffer(BufferSize), remaining, bytes)
       IN  recvQueue' = Append(recvQueue, ReceiveData(buf, bytes))
    /\ remaining' = SubSeq(remaining, bytes + 1, Len(remaining))
    /\ UNCHANGED notRecv
    /\ UNCHANGED <<sent, reading, delivered, lastData, lastSize, lastBytes, nDisconnects>>

\* ReceiveHandler with eof: the peer closed after its last byte; a Disconnect
\* event is queued and no read is armed.
ReceiveHandlerEof ==
    /\ reading
    /\ remaining = <<>>
    /\ reading' = FALSE
    /\ nDisconnects' = nDisconnects + 1
    /\ UNCHANGED notRecv
    /\ UNCHANGED <<sent, remaining, recvQueue, delivered, lastData, lastSize, lastBytes>>

\* The drain executes the oldest Receive callback: the handler gets the string
\* (binary copy of data.size() bytes) and the cell data.size().
ExecuteReceive ==
    /\ recvQueue # <<>>
    /\ LET receiveData == Head(recvQueue)
           pushed == PushStringEx(receiveData.data, Len(receiveData.data), TRUE)
       IN  /\ lastData' = pushed
           /\ lastSize' = Len(receiveData.data)
           /\ lastBytes' = receiveData.dataLength
           /\ delivered' = delivered \o pushed
    /\ recvQueue' = Tail(recvQueue)
    /\ UNCHANGED notRecv
    /\ UNCHANGED <<sent, remaining, reading, nDisconnects>>

RecvNext ==
    \/ \E bytes \in 1..BufferSize : ReceiveHandler(bytes)
    \/ ReceiveHandlerEof
    \/ ExecuteReceive

(***************************************************************************)
(* Dual-stack options and Connect: Socket::SetOption,                      *)
(* Socket::SelectPreferredEndpoint, Socket<tcp>::Connect and its handlers. *)
(***************************************************************************)
RECURSIVE ListsUpTo(_)
\* All resolver result lists of at most n endpoints.
ListsUpTo(n) ==
    IF n = 0 THEN {<<>>}
    ELSE LET shorter == ListsUpTo(n - 1)
         IN  shorter \cup {Append(l, [family |-> f, accepts |-> a]) :
                               l \in shorter, f \in Families, a \in BOOLEAN}

\* The end iterator of a result list.
End(list) == Len(list) + 1

Flags == [ipv6Only |-> ipv6Only, preferIPv6 |-> preferIPv6, preferIPv4 |-> preferIPv4]

RECURSIVE Scan(_, _, _, _)
\* The scan loop of SelectPreferredEndpoint from position `it`: remembers the
\* first IPv6 and the first IPv4 endpoint and stops once both are known.
Scan(list, it, ipv6Endpoint, ipv4Endpoint) ==
    IF it = End(list) THEN [ipv6Endpoint |-> ipv6Endpoint, ipv4Endpoint |-> ipv4Endpoint]
    ELSE LET v6 == IF list[it].family = "v6" /\ ipv6Endpoint = End(list)
                   THEN it ELSE ipv6Endpoint
             v4 == IF list[it].family # "v6" /\ list[it].family = "v4" /\ ipv4Endpoint = End(list)
                   THEN it ELSE ipv4Endpoint
         IN  IF v6 # End(list) /\ v4 # End(list)
             THEN [ipv6Endpoint |-> v6, ipv4Endpoint |-> v4]
             ELSE Scan(list, it + 1, v6, v4)

\* A selection that does not honour ipv6Only_.
ApplyPreferencesWithoutOnly(list, found, f) ==
    IF f.preferIPv6 /\ found.ipv6Endpoint # End(list) THEN found.ipv6Endpoint
    ELSE IF f.preferIPv4 /\ found.ipv4Endpoint # End(list) THEN found.ipv4Endpoint
    ELSE IF found.ipv6Endpoint # End(list) THEN found.ipv6Endpoint
    ELSE IF found.ipv4Endpoint # End(list) THEN found.ipv4Endpoint
    ELSE 1

\* The "apply preferences" part of SelectPreferredEndpoint.
ApplyPreferences(list, found, f) ==
    IF f.ipv6Only
    THEN (IF found.ipv6Endpoint # End(list) THEN found.ipv6Endpoint ELSE End(list))
    ELSE IF f.preferIPv6 /\ found.ipv6Endpoint # End(list) THEN found.ipv6Endpoint
    ELSE IF f.preferIPv4 /\ found.ipv4Endpoint # End(list) THEN found.ipv4Endpoint
    ELSE IF found.ipv6Endpoint # End(list) THEN found.ipv6Endpoint
    ELSE IF found.ipv4Endpoint # End(list) THEN found.ipv4Endpoint
    ELSE 1

\* Socket::SelectPreferredEndpoint(begin, end) over the list, under flags f.
SelectPreferredEndpoint(list, f) ==
    IF 1 = End(list) THEN End(list)
    ELSE IF ~f.ipv6Only /\ ~f.preferIPv6 /\ ~f.preferIPv4 THEN 1
    ELSE ApplyPreferences(list, Scan(list, 1, End(list), End(list)), f)

\* A preference flag that leaves the other preference flag alone.
KeepOther(value, other) == other

\* Clearing the other preference flag when this one is switched off instead of on.
ClearOtherWhenZero(value, other) == IF value = 0 THEN FALSE ELSE other

\* The other preference flag after SetOption(PreferIPv6 or PreferIPv4, value):
\* `if (preferIPvX_) preferIPvY_ = false`.
ClearOther(value, other) == IF value # 0 THEN FALSE ELSE other

ConnInit ==
    /\ ipv6Only = FALSE
    /\ preferIPv6 = FALSE
    /\ preferIPv4 = FALSE
    /\ lastOption = [so |-> "none", value |-> 0]
    /\ clearedByLast = "none"
    /\ connPc = "idle"
    /\ connectAsync = FALSE
    /\ results = <<>>
    /\ endpointIterator = 0
    /\ selected = 0
    /\ selectedUnder = Flags
    /\ tried = <<>>
    /\ nConnectEvents = 0
    /\ nConnectErrors = 0
    /\ nNoHost = 0

\* Socket::SetOption for the three dual-stack options (they return before any
\* descriptor is touched).
SetOption(so, value) ==
    /\ so \in DualStackOptions
    /\ ipv6Only' = IF so = "IPv6Only" THEN value # 0 ELSE ipv6Only
    /\ preferIPv6' = CASE so = "PreferIPv6" -> value # 0
                        [] so = "PreferIPv4" -> ClearOther(value, preferIPv6)
                        [] OTHER -> preferIPv6
    /\ preferIPv4' = CASE so = "PreferIPv4" -> value # 0
                        [] so = "PreferIPv6" -> ClearOther(value, preferIPv4)
                        [] OTHER -> preferIPv4
    /\ lastOption' = [so |-> so, value |-> value]
    /\ clearedByLast' = CASE so = "PreferIPv4" /\ preferIPv6 /\ ~preferIPv6' -> "PreferIPv6"
                           [] so = "PreferIPv6" /\ preferIPv4 /\ ~preferIPv4' -> "PreferIPv4"
                           [] OTHER -> "none"
    /\ UNCHANGED notConn
    /\ UNCHANGED <<connPc, connectAsync, results, endpointIterator, selected,
                   selectedUnder, tried, nConnectEvents, nConnectErrors, nNoHost>>

\* Socket<tcp>::Connect(host, port, async = true): the resolution is handed to the reactor.
ConnectAsync ==
    /\ connPc = "idle"
    /\ connPc' = "resolving"
    /\ connectAsync' = TRUE
    /\ UNCHANGED notConn
    /\ UNCHANGED <<ipv6Only, preferIPv6, preferIPv4, lastOption, clearedByLast, results,
                   endpointIterator, selected, selectedUnder, tried, nConnectEvents,
                   nConnectErrors, nNoHost>>

\* ConnectPostResolveHandler with an error: Error(NO_HOST).
ConnectPostResolveHandlerError ==
    /\ connPc = "resolving"
    /\ connPc' = "failed"
    /\ nNoHost' = nNoHost + 1
    /\ UNCHANGED notConn
    /\ UNCHANGED <<ipv6Only, preferIPv6, preferIPv4, lastOption, clearedByLast,
                   connectAsync, results, endpointIterator, selected, selectedUnder,
                   tried, nConnectEvents, nConnectErrors>>

\* ConnectPostResolveHandler with a result list: select, Error(NO_HOST) if
\* nothing is selected, else async_connect to the selected endpoint.
ConnectPostResolveHandler(list) ==
    /\ connPc = "resolving"
    /\ results' = list
    /\ selectedUnder' = Flags
    /\ LET selectedEndpoint == SelectPreferredEndpoint(list, Flags)
       IN  /\ selected' = selectedEndpoint
           /\ IF selectedEndpoint = End(list)
              THEN /\ connPc' = "failed"
                   /\ nNoHost' = nNoHost + 1
                   /\ UNCHANGED <<endpointIterator, tried>>
              ELSE /\ connPc' = "connecting"
                   /\ endpointIterator' = selectedEndpoint
                   /\ tried' = <<selectedEndpoint>>
                   /\ UNCHANGED nNoHost
    /\ UNCHANGED notConn
    /\ UNCHANGED <<ipv6Only, preferIPv6, preferIPv4, lastOption, clearedByLast,
                   connectAsync, nConnectEvents, nConnectErrors>>

\* Socket<tcp>::ConnectPostConnectHandler: on an error the next endpoint of the
\* list is tried, or Error(CONNECT_ERROR) at the end of the list; on success
\* the Connect event.
ConnectPostConnectHandler ==
    /\ connPc = "connecting"
    /\ IF ~results[endpointIterator].accepts
       THEN IF endpointIterator + 1 # End(results)
            THEN /\ endpointIterator' = endpointIterator + 1
                 /\ tried' = Append(tried, endpointIterator + 1)
                 /\ UNCHANGED <<connPc, nConnectEvents, nConnectErrors>>
            ELSE /\ connPc' = "failed"
                 /\ nConnectErrors' = nConnectErrors + 1
                 /\ UNCHANGED <<endpointIterator, tried, nConnectEvents>>
       ELSE /\ connPc' = "connected"
            /\ nConnectEvents' = nConnectEvents + 1
            /\ UNCHANGED <<endpointIterator, tried, nConnectErrors>>
    /\ UNCHANGED notConn
    /\ UNCHANGED <<ipv6Only, preferIPv6, preferIPv4, lastOption, clearedByLast,
                   connectAsync, results, selected, selectedUnder, nNoHost>>

\* Socket<tcp>::Connect(host, port, async = false) when the resolution fails.
ConnectSyncResolveError ==
    /\ connPc = "idle"
    /\ connPc' = "failed"
    /\ connectAsync' = FALSE
    /\ nNoHost' = nNoHost + 1
    /\ UNCHANGED notConn
    /\ UNCHANGED <<ipv6Only, preferIPv6, preferIPv4, lastOption, clearedByLast, results,
                   endpointIterator, selected, selectedUnder, tried, nConnectEvents,
                   nConnectErrors>>

\* Socket<tcp>::Connect(host, port, async = false) with a result list: select,
\* Error(NO_HOST) if nothing is selected, else one connect to the selected
\* endpoint: Error(CONNECT_ERROR) if it fails, the Connect event if not.
ConnectSync(list) ==
    /\ connPc = "idle"
    /\ connectAsync' = FALSE
    /\ results' = list
    /\ selectedUnder' = Flags
    /\ LET selectedEndpoint == SelectPreferredEndpoint(list, Flags)
       IN  /\ selected' = selectedEndpoint
           /\ IF selectedEndpoint = End(list)
              THEN /\ connPc' = "failed"
                   /\ nNoHost' = nNoHost + 1
                   /\ UNCHANGED <<tried, nConnectEvents, nConnectErrors>>
              ELSE /\ tried' = <<selectedEndpoint>>
                   /\ UNCHANGED nNoHost
                   /\ IF ~list[selectedEndpoint].accepts
                      THEN /\ connPc' = "failed"
                           /\ nConnectErrors' = nConnectErrors + 1
                           /\ UNCHANGED nConnectEvents
                      ELSE /\ connPc' = "connected"
                           /\ nConnectEvents' = nConnectEvents + 1
                           /\ UNCHANGED nConnectErrors
    /\ UNCHANGED notConn
    /\ UNCHANGED <<ipv6Only, preferIPv6, preferIPv4, lastOption, clearedByLast,
                   endpointIterator>>

ConnNext ==
    \/ \E so \in DualStackOptions, value \in OptionValues : SetOption(so, value)
    \/ ConnectAsync
    \/ ConnectPostResolveHandlerError
    \/ \E list \in ListsUpTo(MaxEndpoints) : ConnectPostResolveHandler(list)
    \/ ConnectPostConnectHandler
    \/ ConnectSyncResolveError
    \/ \E list \in ListsUpTo(MaxEndpoints) : ConnectSync(list)

(***************************************************************************)
(* TLS: SocketTLS. One TLS socket, its Connect (TCP connect, then the TLS  *)
(* handshake with certificate verification) and its Disconnect.            *)
(***************************************************************************)
Hostnames == {"", "host"}

NoVerify == [called |-> FALSE, peer |-> FALSE, host |-> FALSE, preverified |-> FALSE,
             matches |-> FALSE, result |-> FALSE]

\* What the peer presents in a handshake: whether the library's chain check
\* passed, whether the certificate's identity is the connect hostname, whether
\* the callback has a current certificate, and whether the exchange itself
\* completed.
Peers == [preverified : BOOLEAN, matches : BOOLEAN, cert : BOOLEAN, net : BOOLEAN]

\* SocketTLS::VerifyCertificate. The identity of the certificate is not read.
VerifyCertificate(peer, host, name, preverified, cert) ==
    IF ~peer THEN TRUE
    ELSE IF ~preverified THEN FALSE
    ELSE IF host /\ name # "" THEN (IF ~cert THEN FALSE ELSE TRUE)
    ELSE preverified

\* The verification a handshake of sslSocket_ performs: none under verify_none,
\* the installed callback if there is one, else the library's own result.
Verified(p) ==
    IF verifyMode = "none" THEN TRUE
    ELSE IF verifyCallbackSet
         THEN VerifyCertificate(verifyPeer, verifyHost, hostname, p.preverified, p.cert)
         ELSE p.preverified

HandshakeSucceeds(p) == p.net /\ Verified(p)

HandshakeEcIgnored(ok) == FALSE

\* The error code the handshake hands to `if (ec)`.
HandshakeEc(ok) == ~ok

RecordVerify(p) ==
    IF verifyMode = "peer" /\ verifyCallbackSet /\ p.net
    THEN [called |-> TRUE, peer |-> verifyPeer, host |-> verifyHost,
          preverified |-> p.preverified, matches |-> p.matches,
          result |-> VerifyCertificate(verifyPeer, verifyHost, hostname, p.preverified, p.cert)]
    ELSE lastVerify

TlsInit ==
    /\ tlsPc = "idle"
    /\ tlsAsync = FALSE
    /\ hostname = ""
    /\ lowestLayerOpen = FALSE
    /\ tcpConnected = FALSE
    /\ verifyPeer = TRUE
    /\ verifyHost = TRUE
    /\ verifyMode = "peer"
    /\ verifyCallbackSet = FALSE
    /\ tlsReading = FALSE
    /\ tlsEvents = <<>>
    /\ handshakeState = "none"
    /\ lastVerify = NoVerify
    /\ openAtFailure = FALSE
    /\ nTlsConnects = 0

\* SocketTLS::SetOption for TLSVerifyPeer and TLSVerifyHost.
TlsSetOption(so, value) ==
    /\ so \in {"TLSVerifyPeer", "TLSVerifyHost"}
    /\ verifyPeer' = IF so = "TLSVerifyPeer" THEN value # 0 ELSE verifyPeer
    /\ verifyMode' = IF so = "TLSVerifyPeer"
                     THEN (IF value # 0 THEN "peer" ELSE "none")
                     ELSE verifyMode
    /\ verifyHost' = IF so = "TLSVerifyHost" THEN value # 0 ELSE verifyHost
    /\ UNCHANGED <<tlsPc, tlsAsync, hostname, lowestLayerOpen, tcpConnected,
                   verifyCallbackSet, tlsReading, tlsEvents, handshakeState,
                   lastVerify, openAtFailure, nTlsConnects>>
    /\ UNCHANGED notTls

\* A Connect call is made when none is under way and the session is not up.
CanCallConnect == tlsPc \in {"idle", "failed"} /\ nTlsConnects < MaxTlsConnects

\* The end of a failed Connect: the event, if any, and nothing else; open is
\* is_open() of the descriptor at that point.
TlsFail(events, open) ==
    /\ tlsPc' = "failed"
    /\ tlsEvents' = tlsEvents \o events
    /\ openAtFailure' = open

\* SocketTLS::Connect, async branch.
TlsConnectAsync(h) ==
    /\ CanCallConnect
    /\ hostname' = h
    /\ tlsAsync' = TRUE
    /\ tlsPc' = "resolving"
    /\ handshakeState' = "none"
    /\ nTlsConnects' = nTlsConnects + 1
    /\ UNCHANGED <<lowestLayerOpen, tcpConnected, verifyPeer, verifyHost, verifyMode,
                   verifyCallbackSet, tlsReading, tlsEvents, lastVerify, openAtFailure>>
    /\ UNCHANGED notTls

\* SocketTLS::InitializeSocket when open() succeeds (or is skipped).
TlsInitializeSocket ==
    /\ lowestLayerOpen' = TRUE
    /\ verifyCallbackSet' = (verifyCallbackSet \/ verifyPeer)

\* SocketTLS::ConnectPostResolveHandler.
TlsConnectPostResolveHandler(outcome) ==
    /\ tlsPc = "resolving"
    /\ outcome \in {"resolveError", "openError", "ok"}
    /\ outcome = "openError" => ~lowestLayerOpen
    /\ CASE outcome = "resolveError" ->
              /\ UNCHANGED <<lowestLayerOpen, verifyCallbackSet>>
              /\ TlsFail(<<"NO_HOST">>, lowestLayerOpen)
         [] outcome = "openError" ->
              /\ UNCHANGED <<lowestLayerOpen, verifyCallbackSet>>
              /\ TlsFail(<<"CONNECT_ERROR">>, lowestLayerOpen)
         [] outcome = "ok" ->
              /\ TlsInitializeSocket
              /\ tlsPc' = "connecting"
              /\ UNCHANGED <<tlsEvents, openAtFailure>>
    /\ UNCHANGED <<tlsAsync, hostname, tcpConnected, verifyPeer, verifyHost, verifyMode,
                   tlsReading, handshakeState, lastVerify, nTlsConnects>>
    /\ UNCHANGED notTls

\* SocketTLS::ConnectPostConnectHandler. A connect on a descriptor that is
\* already connected fails.
TlsConnectPostConnectHandler(ec) ==
    /\ tlsPc = "connecting"
    /\ tcpConnected => ec
    /\ IF ec
       THEN /\ TlsFail(<<"CONNECT_ERROR">>, lowestLayerOpen)
            /\ UNCHANGED tcpConnected
       ELSE /\ tcpConnected' = TRUE
            /\ tlsPc' = "handshaking"
            /\ UNCHANGED <<tlsEvents, openAtFailure>>
    /\ UNCHANGED <<tlsAsync, hostname, lowestLayerOpen, verifyPeer, verifyHost,
                   verifyMode, verifyCallbackSet, tlsReading, handshakeState,
                   lastVerify, nTlsConnects>>
    /\ UNCHANGED notTls

\* What follows the handshake in both variants: `if (ec)` queues
\* TLS_HANDSHAKE_ERROR and returns, else Connect is queued and the receive
\* loop armed.
AfterHandshake(p) ==
    /\ handshakeState' = IF HandshakeSucceeds(p) THEN "ok" ELSE "failed"
    /\ lastVerify' = RecordVerify(p)
    /\ IF HandshakeEc(HandshakeSucceeds(p))
       THEN /\ TlsFail(<<"TLS_HANDSHAKE_ERROR">>, TRUE)
            /\ UNCHANGED tlsReading
       ELSE /\ tlsEvents' = Append(tlsEvents, "Connect")
            /\ tlsReading' = TRUE
            /\ tlsPc' = "connected"
            /\ UNCHANGED openAtFailure

\* SocketTLS::ConnectPostHandshakeHandler.
TlsConnectPostHandshakeHandler(p) ==
    /\ tlsPc = "handshaking"
    /\ AfterHandshake(p)
    /\ UNCHANGED <<tlsAsync, hostname, lowestLayerOpen, tcpConnected, verifyPeer,
                   verifyHost, verifyMode, verifyCallbackSet, nTlsConnects>>
    /\ UNCHANGED notTls

\* SocketTLS::Connect, sync branch: resolve, InitializeSocket, connect,
\* handshake, all inside the call. A failing open() throws and the call
\* returns false without an event.
TlsConnectSync(h, outcome, p) ==
    /\ CanCallConnect
    /\ outcome \in {"resolveError", "openError", "connectError", "handshake"}
    /\ outcome = "openError" => ~lowestLayerOpen
    /\ outcome = "handshake" => ~tcpConnected
    /\ hostname' = h
    /\ tlsAsync' = FALSE
    /\ nTlsConnects' = nTlsConnects + 1
    /\ CASE outcome = "resolveError" ->
              /\ UNCHANGED <<lowestLayerOpen, verifyCallbackSet, tcpConnected, tlsReading,
                             lastVerify>>
              /\ handshakeState' = "none"
              /\ TlsFail(<<"NO_HOST">>, lowestLayerOpen)
         [] outcome = "openError" ->
              /\ UNCHANGED <<lowestLayerOpen, verifyCallbackSet, tcpConnected, tlsReading,
                             lastVerify>>
              /\ handshakeState' = "none"
              /\ TlsFail(<<>>, lowestLayerOpen)
         [] outcome = "connectError" ->
              /\ TlsInitializeSocket
              /\ UNCHANGED <<tcpConnected, tlsReading, lastVerify>>
              /\ handshakeState' = "none"
              /\ TlsFail(<<"CONNECT_ERROR">>, TRUE)
         [] outcome = "handshake" ->
              /\ TlsInitializeSocket
              /\ tcpConnected' = TRUE
              /\ LET cb == verifyCallbackSet \/ verifyPeer
                     ok == p.net /\ (IF verifyMode = "none" THEN TRUE
                                     ELSE IF cb THEN VerifyCertificate(verifyPeer, verifyHost,
                                                                      h, p.preverified, p.cert)
                                     ELSE p.preverified)
                 IN /\ handshakeState' = IF ok THEN "ok" ELSE "failed"
                    /\ lastVerify' =
                         IF verifyMode = "peer" /\ cb /\ p.net
                         THEN [called |-> TRUE, peer |-> verifyPeer, host |-> verifyHost,
                               preverified |-> p.preverified, matches |-> p.matches,
                               result |-> VerifyCertificate(verifyPeer, verifyHost, h,
                                                            p.preverified, p.cert)]
                         ELSE lastVerify
                    /\ IF HandshakeEc(ok)
                       THEN /\ TlsFail(<<"TLS_HANDSHAKE_ERROR">>, TRUE)
                            /\ UNCHANGED tlsReading
                       ELSE /\ tlsEvents' = Append(tlsEvents, "Connect")
                            /\ tlsReading' = TRUE
                            /\ tlsPc' = "connected"
                            /\ UNCHANGED openAtFailure
    /\ UNCHANGED <<verifyPeer, verifyHost, verifyMode>>
    /\ UNCHANGED notTls

\* SocketTLS::Disconnect: nothing on a closed descriptor, else shutdown,
\* close and one Disconnect event.
TlsDisconnect ==
    /\ tlsPc \in {"connected", "failed"}
    /\ lowestLayerOpen
    /\ lowestLayerOpen' = FALSE
    /\ tcpConnected' = FALSE
    /\ tlsReading' = FALSE
    /\ tlsEvents' = Append(tlsEvents, "Disconnect")
    /\ tlsPc' = "idle"
    /\ handshakeState' = "none"
    /\ UNCHANGED <<tlsAsync, hostname, verifyPeer, verifyHost, verifyMode,
                   verifyCallbackSet, lastVerify, openAtFailure, nTlsConnects>>
    /\ UNCHANGED notTls

TlsNext ==
    \/ \E so \in {"TLSVerifyPeer", "TLSVerifyHost"}, value \in {0, 1} : TlsSetOption(so, value)
    \/ \E h \in Hostnames : TlsConnectAsync(h)
    \/ \E outcome \in {"resolveError", "openError", "ok"} : TlsConnectPostResolveHandler(outcome)
    \/ \E ec \in BOOLEAN : TlsConnectPostConnectHandler(ec)
    \/ \E p \in Peers : TlsConnectPostHandshakeHandler(p)
    \/ \E h \in Hostnames, outcome \in {"resolveError", "openError", "connectError", "handshake"},
          p \in Peers : TlsConnectSync(h, outcome, p)
    \/ TlsDisconnect

(***************************************************************************)
(* The callback-queue mutex: CallbackHandler. The consumer thread drains,  *)
(* the reactor thread produces, and a handler run by the drain re-enters   *)
(* the engine and produces too. callbackQueueMutex_ is a std::mutex: it is *)
(* not recursive.                                                          *)
(***************************************************************************)
LockInit ==
    /\ callbackQueueMutex = "free"
    /\ queueLength = 0
    /\ drainPc = "idle"
    /\ producerPc = "idle"
    /\ nReentries = 0
    /\ nHandlers = 0

HeldAfterFetch(holder) == holder

\* The std::lock_guard of FetchFirstCallback is destroyed at its return.
ReleasedAfterFetch(holder) == "free"

\* ExecuteQueuedCallbacks is entered: the loop condition calls FetchFirstCallback.
ExecuteQueuedCallbacks ==
    /\ drainPc = "idle"
    /\ nHandlers < MaxHandlers
    /\ drainPc' = "fetching"
    /\ UNCHANGED <<callbackQueueMutex, queueLength, producerPc, nReentries, nHandlers>>
    /\ UNCHANGED notLock

\* FetchFirstCallback: the lock_guard acquires the mutex.
FetchLock ==
    /\ drainPc = "fetching"
    /\ callbackQueueMutex = "free"
    /\ callbackQueueMutex' = "consumer"
    /\ drainPc' = "locked"
    /\ UNCHANGED <<queueLength, producerPc, nReentries, nHandlers>>
    /\ UNCHANGED notLock

\* FetchFirstCallback: empty -> nullptr and the drain ends; else the front is
\* popped and returned.
FetchReturn ==
    /\ drainPc = "locked"
    /\ callbackQueueMutex' = ReleasedAfterFetch(callbackQueueMutex)
    /\ IF queueLength = 0
       THEN /\ drainPc' = "idle"
            /\ UNCHANGED queueLength
       ELSE /\ queueLength' = queueLength - 1
            /\ drainPc' = "fetched"
    /\ UNCHANGED <<producerPc, nReentries, nHandlers>>
    /\ UNCHANGED notLock

\* The loop body: IsValid() && IsExecutable(), then Execute() enters the handler.
ExecuteOrSkip(executable) ==
    /\ drainPc = "fetched"
    /\ IF executable /\ nHandlers < MaxHandlers
       THEN /\ drainPc' = "handler"
            /\ nHandlers' = nHandlers + 1
       ELSE /\ drainPc' = "fetching"
            /\ UNCHANGED nHandlers
    /\ UNCHANGED <<callbackQueueMutex, queueLength, producerPc, nReentries>>
    /\ UNCHANGED notLock

\* The handler calls back into the engine (Disconnect, Send, ...), which calls
\* AddCallback.
HandlerReenters ==
    /\ drainPc = "handler"
    /\ nReentries < MaxReentries
    /\ drainPc' = "handlerAdds"
    /\ nReentries' = nReentries + 1
    /\ UNCHANGED <<callbackQueueMutex, queueLength, producerPc, nHandlers>>
    /\ UNCHANGED notLock

\* AddCallback on the consumer thread: lock. Locking a std::mutex the thread
\* already owns never returns; the guard then never holds.
HandlerAddLock ==
    /\ drainPc = "handlerAdds"
    /\ callbackQueueMutex = "free"
    /\ callbackQueueMutex' = "consumer"
    /\ drainPc' = "handlerAdding"
    /\ UNCHANGED <<queueLength, producerPc, nReentries, nHandlers>>
    /\ UNCHANGED notLock

\* AddCallback on the consumer thread: push_back, unlock, back in the handler.
HandlerAddReturn ==
    /\ drainPc = "handlerAdding"
    /\ queueLength' = queueLength + 1
    /\ callbackQueueMutex' = "free"
    /\ drainPc' = "handler"
    /\ UNCHANGED <<producerPc, nReentries, nHandlers>>
    /\ UNCHANGED notLock

\* The handler returns; the loop calls FetchFirstCallback again.
HandlerReturns ==
    /\ drainPc = "handler"
    /\ drainPc' = "fetching"
    /\ UNCHANGED <<callbackQueueMutex, queueLength, producerPc, nReentries, nHandlers>>
    /\ UNCHANGED notLock

\* AddCallback on the reactor thread: lock.
ProducerAddLock ==
    /\ producerPc = "idle"
    /\ queueLength < MaxLockQueue
    /\ callbackQueueMutex = "free"
    /\ callbackQueueMutex' = "reactor"
    /\ producerPc' = "adding"
    /\ UNCHANGED <<queueLength, drainPc, nReentries, nHandlers>>
    /\ UNCHANGED notLock

\* AddCallback on the reactor thread: push_back, unlock.
ProducerAddReturn ==
    /\ producerPc = "adding"
    /\ queueLength' = queueLength + 1
    /\ callbackQueueMutex' = "free"
    /\ producerPc' = "idle"
    /\ UNCHANGED <<drainPc, nReentries, nHandlers>>
    /\ UNCHANGED notLock

LockNext ==
    \/ ExecuteQueuedCallbacks
    \/ FetchLock
    \/ FetchReturn
    \/ \E executable \in BOOLEAN : ExecuteOrSkip(executable)
    \/ HandlerReenters
    \/ HandlerAddLock
    \/ HandlerAddReturn
    \/ HandlerReturns
    \/ ProducerAddLock
    \/ ProducerAddReturn

(***************************************************************************)
(* The reactor thread: SocketHandler::StartProcessing, StopProcessing and  *)
(* RunIoService. The io_service is never restarted and the keep-alive      *)
(* token never re-created after a StopProcessing.                          *)
(***************************************************************************)
ReactorInit ==
    /\ ioServiceProcessingThreadInitialized = FALSE
    /\ ioServiceWork = TRUE
    /\ ioServiceStopped = FALSE
    /\ threadPc = "none"
    /\ liveThreads = 0
    /\ pendingHandlers = 0
    /\ stopPc = "idle"
    /\ lastStart = "none"
    /\ lastStop = "none"
    /\ stopMidCallback = FALSE
    /\ nStarts = 0
    /\ nStops = 0

StartNeverReturnsEarly(initialized) == FALSE

\* if (ioServiceProcessingThreadInitialized_) return;
StartReturnsEarly(initialized) == initialized

\* SocketHandler::StartProcessing, called on the consumer thread.
StartProcessing ==
    /\ stopPc = "idle"
    /\ nStarts < MaxStarts
    /\ nStarts' = nStarts + 1
    /\ IF StartReturnsEarly(ioServiceProcessingThreadInitialized)
       THEN /\ lastStart' = "noop"
            /\ UNCHANGED <<ioServiceProcessingThreadInitialized, threadPc, liveThreads>>
       ELSE /\ lastStart' = "created"
            /\ threadPc' = "running"
            /\ liveThreads' = liveThreads + 1
            /\ ioServiceProcessingThreadInitialized' = TRUE
    /\ UNCHANGED <<ioServiceWork, ioServiceStopped, pendingHandlers, stopPc, lastStop,
                   stopMidCallback, nStops>>
    /\ UNCHANGED notReactor

\* SocketHandler::StopProcessing up to the join: early return when not
\* initialized, else ioServiceWork_.reset() and ioService->stop().
StopProcessing ==
    /\ stopPc = "idle"
    /\ nStops < MaxStops
    /\ nStops' = nStops + 1
    /\ IF ~ioServiceProcessingThreadInitialized
       THEN /\ lastStop' = "noop"
            /\ UNCHANGED <<ioServiceWork, ioServiceStopped, stopPc, stopMidCallback>>
       ELSE /\ ioServiceWork' = FALSE
            /\ ioServiceStopped' = TRUE
            /\ stopPc' = "joining"
            /\ stopMidCallback' = (threadPc = "inCallback")
            /\ UNCHANGED lastStop
    /\ UNCHANGED <<ioServiceProcessingThreadInitialized, threadPc, liveThreads,
                   pendingHandlers, lastStart, nStarts>>
    /\ UNCHANGED notReactor

\* StopProcessing from the return of join(): the thread object is reset and
\* the flag cleared. join() returns when the thread has finished.
StopProcessingJoined ==
    /\ stopPc = "joining"
    /\ threadPc = "exited"
    /\ threadPc' = "none"
    /\ ioServiceProcessingThreadInitialized' = FALSE
    /\ stopPc' = "idle"
    /\ lastStop' = "joined"
    /\ UNCHANGED <<ioServiceWork, ioServiceStopped, liveThreads, pendingHandlers,
                   lastStart, stopMidCallback, nStarts, nStops>>
    /\ UNCHANGED notReactor

\* An asynchronous operation completes: its handler is ready to run.
PostCompletion ==
    /\ pendingHandlers < MaxPending
    /\ pendingHandlers' = pendingHandlers + 1
    /\ UNCHANGED <<ioServiceProcessingThreadInitialized, ioServiceWork, ioServiceStopped,
                   threadPc, liveThreads, stopPc, lastStart, lastStop, stopMidCallback,
                   nStarts, nStops>>
    /\ UNCHANGED notReactor

\* RunIoService: ioService->run() takes a ready handler and calls it.
RunHandler ==
    /\ threadPc = "running"
    /\ ~ioServiceStopped
    /\ pendingHandlers > 0
    /\ pendingHandlers' = pendingHandlers - 1
    /\ threadPc' = "inCallback"
    /\ UNCHANGED <<ioServiceProcessingThreadInitialized, ioServiceWork, ioServiceStopped,
                   liveThreads, stopPc, lastStart, lastStop, stopMidCallback, nStarts,
                   nStops>>
    /\ UNCHANGED notReactor

\* The handler returns into ioService->run().
HandlerDone ==
    /\ threadPc = "inCallback"
    /\ threadPc' = "running"
    /\ UNCHANGED <<ioServiceProcessingThreadInitialized, ioServiceWork, ioServiceStopped,
                   liveThreads, pendingHandlers, stopPc, lastStart, lastStop,
                   stopMidCallback, nStarts, nStops>>
    /\ UNCHANGED notReactor

\* RunIoService returns: ioService->run() returns when the io_service is
\* stopped, or when it is out of work (no token, nothing pending).
RunIoServiceReturns ==
    /\ threadPc = "running"
    /\ ioServiceStopped \/ (~ioServiceWork /\ pendingHandlers = 0)
    /\ threadPc' = "exited"
    /\ liveThreads' = liveThreads - 1
    /\ UNCHANGED <<ioServiceProcessingThreadInitialized, ioServiceWork, ioServiceStopped,
                   pendingHandlers, stopPc, lastStart, lastStop, stopMidCallback,
                   nStarts, nStops>>
    /\ UNCHANGED notReactor

ReactorNext ==
    \/ StartProcessing
    \/ StopProcessing
    \/ StopProcessingJoined
    \/ PostCompletion
    \/ RunHandler
    \/ HandlerDone
    \/ RunIoServiceReturns

(***************************************************************************)
(* TLS material: SocketHandler::CreateTLSSocket / GetSSLContext and        *)
(* SocketTLS::SetTLSOption.                                                *)
(***************************************************************************)
TlsSocketIds == {1, 2}

NoContext == 0

ContextIds == {1}

Files == {"none", "a.pem", "b.pem"}

TLSStringOptions == {"TLSCertificateFile", "TLSPrivateKeyFile", "TLSCAFile"}

NoMaterial == [o \in TLSStringOptions |-> "none"]

ContextInit ==
    /\ sslContext = NoContext
    /\ contextMaterial = [c \in ContextIds |-> NoMaterial]
    /\ tlsSockets = {}
    /\ socketContext = [s \in TlsSocketIds |-> NoContext]
    /\ socketFiles = [s \in TlsSocketIds |-> NoMaterial]
    /\ streamMaterial = [s \in TlsSocketIds |-> NoMaterial]
    /\ lastTlsOption = [socket |-> 0, option |-> "none", ok |-> FALSE]
    /\ nTlsOptions = 0

\* SocketHandler::GetSSLContext: the context is made on the first call and the
\* same shared_ptr is returned by every call.
GetSSLContext == IF sslContext = NoContext THEN 1 ELSE sslContext

\* SocketHandler::CreateTLSSocket. The ssl::stream made by the SocketTLS
\* constructor copies the certificate and key the context holds at that
\* moment; the CA store stays the context's.
CreateTLSSocket(s) ==
    /\ s \notin tlsSockets
    /\ sslContext' = GetSSLContext
    /\ socketContext' = [socketContext EXCEPT ![s] = GetSSLContext]
    /\ streamMaterial' = [streamMaterial EXCEPT ![s] = contextMaterial[GetSSLContext]]
    /\ tlsSockets' = tlsSockets \cup {s}
    /\ UNCHANGED <<contextMaterial, socketFiles, lastTlsOption, nTlsOptions>>
    /\ UNCHANGED notCtx

\* SocketTLS::SetTLSOption: the file name is stored in the socket, then loaded
\* into the context the socket points to; a load that throws returns false.
SetTLSOption(s, so, value, loads) ==
    /\ s \in tlsSockets
    /\ so \in TLSStringOptions
    /\ nTlsOptions < MaxTlsOptions
    /\ nTlsOptions' = nTlsOptions + 1
    /\ socketFiles' = [socketFiles EXCEPT ![s][so] = value]
    /\ contextMaterial' = IF loads
                          THEN [contextMaterial EXCEPT ![socketContext[s]][so] = value]
                          ELSE contextMaterial
    /\ lastTlsOption' = [socket |-> s, option |-> so, ok |-> loads]
    /\ UNCHANGED <<sslContext, tlsSockets, socketContext, streamMaterial>>
    /\ UNCHANGED notCtx

\* SocketHandler::DestroySocket of a TLS socket: the SocketTLS is deleted; the
\* context lives on in SocketHandler::sslContext_.
DestroyTLSSocket(s) ==
    /\ s \in tlsSockets
    /\ tlsSockets' = tlsSockets \ {s}
    /\ socketContext' = [socketContext EXCEPT ![s] = NoContext]
    /\ socketFiles' = [socketFiles EXCEPT ![s] = NoMaterial]
    /\ streamMaterial' = [streamMaterial EXCEPT ![s] = NoMaterial]
    /\ UNCHANGED <<sslContext, contextMaterial, lastTlsOption, nTlsOptions>>
    /\ UNCHANGED notCtx

ContextNext ==
    \/ \E s \in TlsSocketIds : CreateTLSSocket(s)
    \/ \E s \in TlsSocketIds, so \in TLSStringOptions, value \in Files \ {"none"},
          loads \in BOOLEAN : SetTLSOption(s, so, value, loads)
    \/ \E s \in TlsSocketIds : DestroyTLSSocket(s)

(***************************************************************************)
(* The synchronous entry points: Socket::Bind, Socket<tcp>::Connect and    *)
(* Socket<tcp>::Send with async = false, as what each call returns and     *)
(* queues for every way it can end.                                        *)
(***************************************************************************)
SyncOps == {"Bind", "Connect", "Send"}

\* How a synchronous call can end. "emptyData" is Send's argument check;
\* "throws" is a std::exception inside the try block; "noEndpoint" is
\* SelectPreferredEndpoint returning the end iterator; the others are the
\* platform call that set the error code, or none ("ok").
SyncEndings(op) ==
    CASE op = "Bind" -> {"resolveError", "openError", "bindError", "throws", "ok"}
      [] op = "Connect" -> {"resolveError", "noEndpoint", "connectError", "throws", "ok"}
      [] op = "Send" -> {"emptyData", "writeError", "throws", "ok"}

\* The endings in which a platform call reported an error code.
PlatformErrors == {"resolveError", "openError", "bindError", "connectError", "writeError"}

\* Values of ec.value() of a failed platform call.
PlatformCodes == {11, 22}

\* SM_ErrorType of the Error event of each failing path.
ErrorKind(op, ending) ==
    CASE op = "Bind" -> "BIND_ERROR"
      [] op = "Connect" /\ ending \in {"resolveError", "noEndpoint"} -> "NO_HOST"
      [] op = "Connect" -> "CONNECT_ERROR"
      [] op = "Send" -> "SEND_ERROR"

ErrorEvent(kind, code) == [event |-> "Error", kind |-> kind, code |-> code]

NoErrorQueued(kind, code) == <<>>

\* callbackHandler.AddCallback(Error, this, kind, ec.value()) before `return false`.
ErrorQueued(kind, code) == <<ErrorEvent(kind, code)>>

\* What one synchronous call returns and queues. drained is the test
\* `sendQueueLength == 0 && sendqueueEmptyCallback` of a Send that succeeded.
SyncCall(op, ending, code, drained) ==
    CASE ending \in {"emptyData", "throws"} ->
             [returned |-> FALSE, queued |-> <<>>]
      [] ending \in PlatformErrors ->
             [returned |-> FALSE, queued |-> ErrorQueued(ErrorKind(op, ending), code)]
      [] ending = "noEndpoint" ->
             [returned |-> FALSE, queued |-> ErrorQueued(ErrorKind(op, ending), 0)]
      [] ending = "ok" ->
             [returned |-> TRUE,
              queued |-> CASE op = "Connect" -> <<[event |-> "Connect", kind |-> "none", code |-> 0]>>
                           [] op = "Send" /\ drained ->
                                  <<[event |-> "SendQueueEmpty", kind |-> "none", code |-> 0]>>
                           [] OTHER -> <<>>]

SyncInit ==
    /\ lastCall = [op |-> "none", ending |-> "none", code |-> 0, returned |-> TRUE,
                   queued |-> <<>>]
    /\ syncEvents = <<>>
    /\ nSyncCalls = 0

\* One synchronous Bind, Connect or Send.
SyncEntryPoint(op, ending, code, drained) ==
    /\ nSyncCalls < MaxSyncCalls
    /\ ending \in SyncEndings(op)
    /\ LET r == SyncCall(op, ending, code, drained)
       IN  /\ lastCall' = [op |-> op, ending |-> ending, code |-> code,
                           returned |-> r.returned, queued |-> r.queued]
           /\ syncEvents' = syncEvents \o r.queued
    /\ nSyncCalls' = nSyncCalls + 1
    /\ UNCHANGED notSync

SyncNext ==
    \E op \in SyncOps, ending \in PlatformErrors \cup {"emptyData", "throws", "noEndpoint", "ok"},
       code \in PlatformCodes, drained \in BOOLEAN : SyncEntryPoint(op, ending, code, drained)

(***************************************************************************)
(* Receive loop and Send of a connected TCP socket (Socket<tcp>) and of a   *)
(* TLS session (SocketTLS), driven by the same calls and the same           *)
(* completion outcomes.                                                     *)
(***************************************************************************)
\* How a read completes: with data (bytes > 0, no error), or with the error
\* eof, connection_reset, or another one.
ReadOutcomes == {"data", "eof", "connection_reset", "other"}

Emit(side, events) == [side EXCEPT !.trace = @ \o events]

RearmOnError(outcome) == 1

\* The reads a ReceiveHandler arms before it returns: one after data, none
\* after `if (ec) { ...; return; }`.
RearmRead(outcome) == IF outcome = "data" THEN 1 ELSE 0

\* Socket<tcp>::ReceiveHandler.
TcpReceiveHandler(side, outcome) ==
    LET isDisconnect == outcome \in {"eof", "connection_reset"}
        events == CASE outcome = "data" -> <<"Receive">>
                    [] isDisconnect -> <<"Disconnect">>
                    [] OTHER -> <<"RECV_ERROR">>
    IN  [Emit(side, events) EXCEPT !.armed = @ - 1 + RearmRead(outcome)]

\* SocketTLS::ReceiveHandler.
TlsReceiveHandler(side, outcome) ==
    LET events == CASE outcome = "data" -> <<"Receive">>
                    [] outcome = "eof" -> <<"Disconnect">>
                    [] OTHER -> <<"RECV_ERROR", "Disconnect">>
    IN  [Emit(side, events) EXCEPT !.armed = @ - 1 + RearmRead(outcome)]

\* What follows `sendQueueLength--` on both: Error(SEND_ERROR) and return, else
\* SendQueueEmpty if the counter is 0 and the callback is set.
AfterDecrement(side, ec, cb) ==
    IF ec THEN Emit(side, <<"SEND_ERROR">>)
    ELSE IF side.sendQueueLength = 0 /\ cb THEN Emit(side, <<"SendQueueEmpty">>)
    ELSE side

\* Socket::SendPostSendHandler and SocketTLS::SendPostSendHandler.
SendPostSendHandler(side, ec, cb) ==
    AfterDecrement([side EXCEPT !.sendQueueLength = @ - 1], ec, cb)

\* Socket<tcp>::Send. async: count and issue the write. sync: count, write,
\* uncount, then as after a completion.
TcpSend(side, async, ec, cb) ==
    IF async THEN [side EXCEPT !.sendQueueLength = @ + 1]
    ELSE AfterDecrement(side, ec, cb)

\* SocketTLS::Send. async: count and issue the write. sync: write, and
\* Error(SEND_ERROR) on failure; the counter is not touched and nothing is
\* queued on success.
TlsSend(side, async, ec, cb) ==
    IF async THEN [side EXCEPT !.sendQueueLength = @ + 1]
    ELSE IF ec THEN Emit(side, <<"SEND_ERROR">>) ELSE side

\* Both are connected and have their first read armed (ConnectPostConnectHandler,
\* ConnectPostHandshakeHandler).
PairInit ==
    /\ tcpSide = [armed |-> 1, trace |-> <<>>, sendQueueLength |-> 0]
    /\ tlsSide = [armed |-> 1, trace |-> <<>>, sendQueueLength |-> 0]
    /\ writesInFlight = 0
    /\ emptyCallback \in BOOLEAN
    /\ terminals = 0
    /\ nInputs = 0

\* A read completes on both with the same outcome.
ReadCompletes(outcome) ==
    /\ nInputs < MaxInputs
    /\ tcpSide.armed > 0 /\ tlsSide.armed > 0
    /\ tcpSide' = TcpReceiveHandler(tcpSide, outcome)
    /\ tlsSide' = TlsReceiveHandler(tlsSide, outcome)
    /\ terminals' = IF outcome = "data" THEN terminals ELSE terminals + 1
    /\ nInputs' = nInputs + 1
    /\ UNCHANGED <<writesInFlight, emptyCallback>>
    /\ UNCHANGED notPair

\* The same Send call on both; ec is the result of the write of a sync Send.
SendCalled(async, ec) ==
    /\ nInputs < MaxInputs
    /\ async => ~ec
    /\ tcpSide' = TcpSend(tcpSide, async, ec, emptyCallback)
    /\ tlsSide' = TlsSend(tlsSide, async, ec, emptyCallback)
    /\ writesInFlight' = IF async THEN writesInFlight + 1 ELSE writesInFlight
    /\ nInputs' = nInputs + 1
    /\ UNCHANGED <<emptyCallback, terminals>>
    /\ UNCHANGED notPair

\* An async write completes on both with the same result.
WriteCompletes(ec) ==
    /\ writesInFlight > 0
    /\ tcpSide' = SendPostSendHandler(tcpSide, ec, emptyCallback)
    /\ tlsSide' = SendPostSendHandler(tlsSide, ec, emptyCallback)
    /\ writesInFlight' = writesInFlight - 1
    /\ UNCHANGED <<emptyCallback, terminals, nInputs>>
    /\ UNCHANGED notPair

PairNext ==
    \/ \E outcome \in ReadOutcomes : ReadCompletes(outcome)
    \/ \E async \in BOOLEAN, ec \in BOOLEAN : SendCalled(async, ec)
    \/ \E ec \in BOOLEAN : WriteCompletes(ec)

(***************************************************************************)
(* Resolution and connect of SocketTLS::Connect and Socket<udp>::Connect   *)
(* next to those of Socket<tcp>::Connect, on the same resolver result and  *)
(* after the same SetOption calls.                                         *)
(***************************************************************************)
\* The flag settings SetOption can leave on a socket.
FlagSettings ==
    {f \in [ipv6Only : BOOLEAN, preferIPv6 : BOOLEAN, preferIPv4 : BOOLEAN] :
        ~(f.preferIPv6 /\ f.preferIPv4)}

RECURSIVE Chain(_, _)
\* Socket<tcp>::ConnectPostConnectHandler from endpoint i on: on an error the
\* next endpoint of the list is tried, until one accepts or the list ends.
Chain(list, i) ==
    IF list[i].accepts \/ i + 1 = End(list) THEN <<i>>
    ELSE <<i>> \o Chain(list, i + 1)

Ended(list, attempts) ==
    [tried |-> attempts,
     event |-> IF list[attempts[Len(attempts)]].accepts THEN "connected"
               ELSE "CONNECT_ERROR"]

\* Socket<tcp>::Connect: the async path runs ConnectPostResolveHandler and
\* ConnectPostConnectHandler; the sync path makes one connect call to the
\* selected endpoint.
TcpConnectRun(list, f, async) ==
    LET selectedEndpoint == SelectPreferredEndpoint(list, f)
    IN  IF selectedEndpoint = End(list) THEN [tried |-> <<>>, event |-> "NO_HOST"]
        ELSE IF async THEN Ended(list, Chain(list, selectedEndpoint))
        ELSE Ended(list, <<selectedEndpoint>>)

\* Socket<udp>::Connect: the async path shares ConnectPostResolveHandler with
\* TCP and Socket<udp>::ConnectPostConnectHandler advances the iterator on an
\* error like the TCP one; the sync path connects to *endpointIterator, the
\* first endpoint, once.
UdpConnectRun(list, f, async) ==
    IF async THEN TcpConnectRun(list, f, TRUE) ELSE Ended(list, <<1>>)

\* SocketTLS::ConnectPostResolveHandler and ConnectPostConnectHandler: one
\* async_connect to *endpointIterator, the first endpoint; an error ends the
\* Connect. SocketTLS::SetOption queues the dual-stack options and no code
\* reads them.
TlsConnectRun(list, f) == Ended(list, <<1>>)

CmpInit ==
    /\ resolved = <<>>
    /\ optionsSet = [ipv6Only |-> FALSE, preferIPv6 |-> FALSE, preferIPv4 |-> FALSE]
    /\ tcpConnect = [tried |-> <<>>, event |-> "none"]
    /\ tlsConnect = [tried |-> <<>>, event |-> "none"]
    /\ udpConnect = [tried |-> <<>>, event |-> "none"]
    /\ cmpAsync = TRUE
    /\ nResolved = 0

\* The three sockets resolve to the same non-empty list and connect.
ConnectBoth(list, f, async) ==
    /\ nResolved < MaxResolved
    /\ list # <<>>
    /\ resolved' = list
    /\ optionsSet' = f
    /\ cmpAsync' = async
    /\ tcpConnect' = TcpConnectRun(list, f, async)
    /\ tlsConnect' = TlsConnectRun(list, f)
    /\ udpConnect' = UdpConnectRun(list, f, async)
    /\ nResolved' = nResolved + 1
    /\ UNCHANGED notCmp

CmpNext ==
    \E list \in ListsUpTo(MaxEndpoints), f \in FlagSettings, async \in BOOLEAN :
        ConnectBoth(list, f, async)

(***************************************************************************)
(* The outstanding-send counter: Socket<udp>::Send, Socket<udp>::SendTo    *)
(* and their completion handlers, with the paths through the catch blocks. *)
(***************************************************************************)
\* sendQueueLength is an unsigned integer of CounterBits bits.
Modulus == 2 ^ CounterBits

Increment(len) == (len + 1) % Modulus

Decrement(len) == (len + Modulus - 1) % Modulus

\* How a call can end. "throw_before": an exception before `sendQueueLength++`
\* (the buffer or the resolver could not be allocated); "throw_issuing": one
\* after the increment and before the operation is issued or the write is
\* made; "throw_reporting": one after the synchronous decrement, while the
\* event is allocated. "no_host" is the resolve error of a synchronous SendTo.
CallEndings(op, async) ==
    IF async THEN {"issued", "throw_before", "throw_issuing"}
    ELSE {"ok", "error", "throw_before", "throw_issuing", "throw_reporting"}
         \cup (IF op = "SendTo" THEN {"no_host"} ELSE {})

\* The counter when the call returns: every path through the catch block
\* ends with `sendQueueLength--`.
CounterAfterCall(len, ending) ==
    CASE ending = "issued" -> Increment(len)
      [] ending = "throw_before" -> Decrement(len)
      [] ending = "throw_reporting" -> Decrement(Decrement(Increment(len)))
      [] OTHER -> Decrement(Increment(len))

\* The event a synchronous call queues after its decrement.
EventAfter(len, ending, cb) ==
    CASE ending = "error" -> "SEND_ERROR"
      [] ending = "no_host" -> "NO_HOST"
      [] ending = "ok" /\ len = 0 /\ cb -> "SendQueueEmpty"
      [] OTHER -> "none"

CntInit ==
    /\ udpSendQueueLength = 0
    /\ udpEmptyCallback \in BOOLEAN
    /\ pendingSends = 0
    /\ pendingResolves = 0
    /\ pendingSendTos = 0
    /\ lastSendEvent = "none"
    /\ nSendOps = 0

\* Socket<udp>::Send(data, async) with non-empty data.
UdpSend(async, ending) ==
    /\ nSendOps < MaxSendOps
    /\ udpSendQueueLength' = CounterAfterCall(udpSendQueueLength, ending)
    /\ pendingSends' = IF ending = "issued" THEN pendingSends + 1 ELSE pendingSends
    /\ lastSendEvent' = EventAfter(udpSendQueueLength', ending, udpEmptyCallback)
    /\ nSendOps' = nSendOps + 1
    /\ UNCHANGED <<udpEmptyCallback, pendingResolves, pendingSendTos>>
    /\ UNCHANGED notCnt

\* Socket<udp>::SendTo(data, hostname, port, async) with non-empty data.
UdpSendTo(async, ending) ==
    /\ nSendOps < MaxSendOps
    /\ udpSendQueueLength' = CounterAfterCall(udpSendQueueLength, ending)
    /\ pendingResolves' = IF ending = "issued" THEN pendingResolves + 1
                          ELSE pendingResolves
    /\ lastSendEvent' = EventAfter(udpSendQueueLength', ending, udpEmptyCallback)
    /\ nSendOps' = nSendOps + 1
    /\ UNCHANGED <<udpEmptyCallback, pendingSends, pendingSendTos>>
    /\ UNCHANGED notCnt

\* Socket::SendPostSendHandler: the completion of an async_send.
UdpSendPostSendHandler(ec) ==
    /\ pendingSends > 0
    /\ pendingSends' = pendingSends - 1
    /\ udpSendQueueLength' = Decrement(udpSendQueueLength)
    /\ lastSendEvent' = EventAfter(udpSendQueueLength', ec, udpEmptyCallback)
    /\ UNCHANGED <<udpEmptyCallback, pendingResolves, pendingSendTos, nSendOps>>
    /\ UNCHANGED notCnt

\* Socket<udp>::SendToPostResolveHandler: a resolve error ends the operation
\* with NO_HOST, an exception while issuing async_send_to with SEND_ERROR, both
\* after one decrement; otherwise the send is issued.
SendToPostResolveHandler(outcome) ==
    /\ pendingResolves > 0
    /\ pendingResolves' = pendingResolves - 1
    /\ IF outcome = "ok"
       THEN /\ pendingSendTos' = pendingSendTos + 1
            /\ lastSendEvent' = "none"
            /\ UNCHANGED udpSendQueueLength
       ELSE /\ udpSendQueueLength' = Decrement(udpSendQueueLength)
            /\ lastSendEvent' = IF outcome = "no_host" THEN "NO_HOST" ELSE "SEND_ERROR"
            /\ UNCHANGED pendingSendTos
    /\ UNCHANGED <<udpEmptyCallback, pendingSends, nSendOps>>
    /\ UNCHANGED notCnt

\* Socket::SendToPostSendHandler: the completion of an async_send_to.
SendToPostSendHandler(ec) ==
    /\ pendingSendTos > 0
    /\ pendingSendTos' = pendingSendTos - 1
    /\ udpSendQueueLength' = Decrement(udpSendQueueLength)
    /\ lastSendEvent' = EventAfter(udpSendQueueLength', ec, udpEmptyCallback)
    /\ UNCHANGED <<udpEmptyCallback, pendingSends, pendingResolves, nSendOps>>
    /\ UNCHANGED notCnt

CntNext ==
    \/ \E async \in BOOLEAN : \E ending \in CallEndings("Send", async) :
          UdpSend(async, ending)
    \/ \E async \in BOOLEAN : \E ending \in CallEndings("SendTo", async) :
          UdpSendTo(async, ending)
    \/ \E ec \in {"ok", "error"} : UdpSendPostSendHandler(ec)
    \/ \E outcome \in {"ok", "no_host", "throw"} : SendToPostResolveHandler(outcome)
    \/ \E ec \in {"ok", "error"} : SendToPostSendHandler(ec)

(***************************************************************************)
(* Socket<tcp>::ListenIncomingHandler statement by statement, with the     *)
(* read completions of the children it accepted. The reactor has one       *)
(* thread: a child's completion runs only between two handlers.            *)
(***************************************************************************)
Children == 1..MaxChildren

\* The order of the statements of a successful accept.
ArmBeforeEnqueue(step) ==
    CASE step = "register" -> "arm"
      [] step = "arm" -> "enqueue"
      [] step = "enqueue" -> "accept"
      [] OTHER -> "done"

StepAfter(step) ==
    CASE step = "register" -> "enqueue"
      [] step = "enqueue" -> "arm"
      [] step = "arm" -> "accept"
      [] OTHER -> "done"

Logged(step) ==
    Append(stepLog, [step |-> step, child |-> acceptedSocket,
                     registered |-> acceptedSocket \in childSockets])

ChildInit ==
    /\ acceptStep = "done"
    /\ acceptedSocket = 0
    /\ childSockets = {}
    /\ childReads = {}
    /\ acceptIssued = TRUE
    /\ inserted = <<>>
    /\ stepLog = <<>>
    /\ nArrivals = 0

\* The pending async_accept completes. With ec set: Error(LISTEN_ERROR) and no
\* further accept. Without: socketHandler.CreateSocket<tcp>() registers the child.
AcceptCompletes(ec) ==
    /\ acceptStep = "done"
    /\ acceptIssued
    /\ nArrivals < MaxChildren
    /\ nArrivals' = nArrivals + 1
    /\ acceptIssued' = FALSE
    /\ IF ec
       THEN /\ inserted' = Append(inserted, [event |-> "LISTEN_ERROR", socket |-> 0])
            /\ UNCHANGED <<acceptStep, acceptedSocket, childSockets, stepLog>>
       ELSE /\ acceptedSocket' = nArrivals + 1
            /\ childSockets' = childSockets \cup {nArrivals + 1}
            /\ stepLog' = Append(stepLog, [step |-> "register", child |-> nArrivals + 1,
                                           registered |-> TRUE])
            /\ acceptStep' = StepAfter("register")
            /\ UNCHANGED inserted
    /\ UNCHANGED childReads
    /\ UNCHANGED notChild

\* callbackHandler.AddCallback(Incoming, this, newSocket, remoteEndpoint).
EnqueueIncoming ==
    /\ acceptStep = "enqueue"
    /\ inserted' = Append(inserted, [event |-> "Incoming", socket |-> acceptedSocket])
    /\ stepLog' = Logged("enqueue")
    /\ acceptStep' = StepAfter("enqueue")
    /\ UNCHANGED <<acceptedSocket, childSockets, childReads, acceptIssued, nArrivals>>
    /\ UNCHANGED notChild

\* newSocket->socket_->async_read_some(...).
ArmChildRead ==
    /\ acceptStep = "arm"
    /\ childReads' = childReads \cup {acceptedSocket}
    /\ stepLog' = Logged("arm")
    /\ acceptStep' = StepAfter("arm")
    /\ UNCHANGED <<acceptedSocket, childSockets, acceptIssued, inserted, nArrivals>>
    /\ UNCHANGED notChild

\* tcpAcceptor_->async_accept(...): the handler returns.
IssueNextAccept ==
    /\ acceptStep = "accept"
    /\ acceptIssued' = TRUE
    /\ stepLog' = Logged("accept")
    /\ acceptStep' = StepAfter("accept")
    /\ UNCHANGED <<acceptedSocket, childSockets, childReads, inserted, nArrivals>>
    /\ UNCHANGED notChild

\* An exception in the try block after the child was created: the catch block
\* queues Error(LISTEN_ERROR) and the handler returns without a further accept.
HandlerThrows ==
    /\ acceptStep \in {"enqueue", "arm", "accept"}
    /\ inserted' = Append(inserted, [event |-> "LISTEN_ERROR", socket |-> 0])
    /\ acceptStep' = "done"
    /\ UNCHANGED <<acceptedSocket, childSockets, childReads, acceptIssued, stepLog, nArrivals>>
    /\ UNCHANGED notChild

\* A child's read completes (Socket<tcp>::ReceiveHandler): Receive and a new
\* read, or Disconnect / Error(RECV_ERROR) and the end of its loop.
ChildReadCompletes(c, outcome) ==
    /\ acceptStep = "done"
    /\ c \in childReads
    /\ Len(inserted) < MaxInserted
    /\ inserted' = Append(inserted,
          [event |-> CASE outcome = "data" -> "Receive"
                       [] outcome \in {"eof", "connection_reset"} -> "Disconnect"
                       [] OTHER -> "RECV_ERROR",
           socket |-> c])
    /\ childReads' = IF outcome = "data" THEN childReads ELSE childReads \ {c}
    /\ UNCHANGED <<acceptStep, acceptedSocket, childSockets, acceptIssued, stepLog, nArrivals>>
    /\ UNCHANGED notChild

ChildNext ==
    \/ \E ec \in BOOLEAN : AcceptCompletes(ec)
    \/ EnqueueIncoming
    \/ ArmChildRead
    \/ IssueNextAccept
    \/ HandlerThrows
    \/ \E c \in Children, outcome \in ReadOutcomes : ChildReadCompletes(c, outcome)

(***************************************************************************)
(* The family of the descriptor: Socket::Bind, BindPostResolveHandler,     *)
(* Socket::InitializeSocket before a connect, Socket::Disconnect.          *)
(***************************************************************************)
\* The protocol Socket::InitializeSocket opens a closed descriptor with.
ProtocolByFlags(f) == IF f.preferIPv6 \/ f.ipv6Only THEN "v6" ELSE "v4"

\* The protocol Bind and BindPostResolveHandler open a closed descriptor with:
\* `socket_->open(SocketType::v4(), ec)`.
BindProtocol(f) == "v4"

\* The descriptor after `if (!is_open()) open(protocol)`.
Opened(d, protocol) == IF d = "closed" THEN protocol ELSE d

FamilyInit ==
    /\ descriptor = "closed"
    /\ familyFlags = [ipv6Only |-> FALSE, preferIPv6 |-> FALSE, preferIPv4 |-> FALSE]
    /\ lastOpen = [op |-> "none", wasClosed |-> TRUE, endpoint |-> "v4",
                   descriptor |-> "closed", ok |-> FALSE, flags |-> familyFlags]
    /\ nFamilyOps = 0

\* SetOption calls for the dual-stack options leave any of the flag settings.
SetFamilyFlags(f) ==
    /\ f # familyFlags
    /\ familyFlags' = f
    /\ UNCHANGED <<descriptor, lastOpen, nFamilyOps>>
    /\ UNCHANGED notFamily

\* Bind (sync) or BindPostResolveHandler (async) once the name is resolved to
\* an endpoint of family `endpoint`: opens a closed descriptor, then binds. The
\* system refuses to bind a descriptor to an address of the other family.
BindEndpoint(endpoint) ==
    /\ nFamilyOps < MaxFamilyOps
    /\ nFamilyOps' = nFamilyOps + 1
    /\ descriptor' = Opened(descriptor, BindProtocol(familyFlags))
    /\ lastOpen' = [op |-> "Bind", wasClosed |-> descriptor = "closed",
                    endpoint |-> endpoint, descriptor |-> descriptor',
                    ok |-> descriptor' = endpoint, flags |-> familyFlags]
    /\ UNCHANGED familyFlags
    /\ UNCHANGED notFamily

\* Connect (sync) or ConnectPostResolveHandler (async) with a selected endpoint:
\* InitializeSocket opens a closed descriptor by the flags and ignores the
\* error; when that open failed, the connect call opens the descriptor with
\* the endpoint's protocol.
ConnectEndpoint(list, opens) ==
    /\ nFamilyOps < MaxFamilyOps
    /\ SelectPreferredEndpoint(list, familyFlags) # End(list)
    /\ nFamilyOps' = nFamilyOps + 1
    /\ LET endpoint == list[SelectPreferredEndpoint(list, familyFlags)].family
       IN  /\ descriptor' = Opened(descriptor,
                                   IF opens THEN ProtocolByFlags(familyFlags) ELSE endpoint)
           /\ lastOpen' = [op |-> "Connect", wasClosed |-> descriptor = "closed",
                           endpoint |-> endpoint, descriptor |-> descriptor',
                           ok |-> descriptor' = endpoint, flags |-> familyFlags]
    /\ UNCHANGED familyFlags
    /\ UNCHANGED notFamily

\* Socket::Disconnect: closes an open descriptor.
CloseDescriptor ==
    /\ nFamilyOps < MaxFamilyOps
    /\ descriptor # "closed"
    /\ nFamilyOps' = nFamilyOps + 1
    /\ descriptor' = "closed"
    /\ UNCHANGED <<familyFlags, lastOpen>>
    /\ UNCHANGED notFamily

FamilyNext ==
    \/ \E f \in FlagSettings : SetFamilyFlags(f)
    \/ \E endpoint \in Families : BindEndpoint(endpoint)
    \/ \E list \in ListsUpTo(MaxFamilyList), opens \in BOOLEAN : ConnectEndpoint(list, opens)
    \/ CloseDescriptor

(***************************************************************************)
(* SocketHandler::DestroySocket (with ~SocketWrapper and ~Socket) on the   *)
(* consumer thread against Socket::BindPostResolveHandler on the reactor   *)
(* thread, lock by lock.                                                   *)
(***************************************************************************)
TeardownInit ==
    /\ socketListMutex = "none"
    /\ socketMutex = "none"
    /\ handlerShared = 0
    /\ inSocketList = TRUE
    /\ instance = "live"
    /\ descriptorOpen = FALSE
    /\ continuations = 0
    /\ destroyPc = "idle"
    /\ handlerPc = "idle"
    /\ underListMutex = {}
    /\ ranOnReleased = FALSE
    /\ nIssued = 0

\* Bind(host, port, async = true): takes handlerMutex_ shared, moves the lock
\* into the continuation and issues async_resolve.
IssueBindAsync ==
    /\ destroyPc = "idle"
    /\ nIssued < MaxIssued
    /\ nIssued' = nIssued + 1
    /\ handlerShared' = handlerShared + 1
    /\ continuations' = continuations + 1
    /\ UNCHANGED <<socketListMutex, socketMutex, inSocketList, instance, descriptorOpen,
                   destroyPc, handlerPc, underListMutex, ranOnReleased>>
    /\ UNCHANGED notTeardown

\* DestroySocket: lock_guard on socketListMutex_, then socketList_.erase(it).
DestroyLock ==
    /\ destroyPc = "idle"
    /\ inSocketList
    /\ socketListMutex = "none"
    /\ socketListMutex' = "consumer"
    /\ inSocketList' = FALSE
    /\ underListMutex' = underListMutex \cup {"mutate"}
    /\ destroyPc' = "erasing"
    /\ UNCHANGED <<socketMutex, handlerShared, instance, descriptorOpen, continuations,
                   handlerPc, ranOnReleased, nIssued>>
    /\ UNCHANGED notTeardown

\* erase runs ~SocketWrapper and ~Socket: `if (socket_->is_open()) { lock_guard
\* on socketMutex_; ...`. handlerMutex_ is not taken.
DestructorLock ==
    /\ destroyPc = "erasing"
    /\ IF descriptorOpen
       THEN /\ socketMutex = "none"
            /\ socketMutex' = "consumer"
            /\ destroyPc' = "closing"
       ELSE /\ destroyPc' = "releasing"
            /\ UNCHANGED socketMutex
    /\ UNCHANGED <<socketListMutex, handlerShared, inSocketList, instance, descriptorOpen,
                   continuations, handlerPc, underListMutex, ranOnReleased, nIssued>>
    /\ UNCHANGED notTeardown

\* ... socket_->close(ec); }`.
DestructorClose ==
    /\ destroyPc = "closing"
    /\ descriptorOpen' = FALSE
    /\ socketMutex' = "none"
    /\ underListMutex' = underListMutex \cup {"close"}
    /\ destroyPc' = "releasing"
    /\ UNCHANGED <<socketListMutex, handlerShared, inSocketList, instance, continuations,
                   handlerPc, ranOnReleased, nIssued>>
    /\ UNCHANGED notTeardown

\* The members are destroyed and `delete` frees the instance.
DestructorRelease ==
    /\ destroyPc = "releasing"
    /\ instance' = "released"
    /\ underListMutex' = underListMutex \cup {"release"}
    /\ destroyPc' = "unlocking"
    /\ UNCHANGED <<socketListMutex, socketMutex, handlerShared, inSocketList,
                   descriptorOpen, continuations, handlerPc, ranOnReleased, nIssued>>
    /\ UNCHANGED notTeardown

\* DestroySocket returns: the lock_guard releases socketListMutex_.
DestroyUnlock ==
    /\ destroyPc = "unlocking"
    /\ socketListMutex' = "none"
    /\ destroyPc' = "done"
    /\ UNCHANGED <<socketMutex, handlerShared, inSocketList, instance, descriptorOpen,
                   continuations, handlerPc, underListMutex, ranOnReleased, nIssued>>
    /\ UNCHANGED notTeardown

\* The resolve completes and the reactor calls BindPostResolveHandler on the
\* captured `this`. On a released instance that is a use after free: the
\* handler runs on the stale memory or the process faults.
HandlerStart(ec, faults) ==
    /\ handlerPc = "idle"
    /\ continuations > 0
    /\ continuations' = continuations - 1
    /\ faults => instance = "released"
    /\ ranOnReleased' = (ranOnReleased \/ instance = "released")
    /\ handlerPc' = IF faults THEN "crashed" ELSE IF ec THEN "emit" ELSE "lock"
    /\ UNCHANGED <<socketListMutex, socketMutex, handlerShared, inSocketList, instance,
                   descriptorOpen, destroyPc, underListMutex, nIssued>>
    /\ UNCHANGED notTeardown

\* `std::lock_guard<std::mutex> socketLock(socketMutex_);`
HandlerLockSocket ==
    /\ handlerPc = "lock"
    /\ socketMutex = "none"
    /\ socketMutex' = "reactor"
    /\ handlerPc' = "bind"
    /\ UNCHANGED <<socketListMutex, handlerShared, inSocketList, instance, descriptorOpen,
                   continuations, destroyPc, underListMutex, ranOnReleased, nIssued>>
    /\ UNCHANGED notTeardown

\* open and bind under socketMutex_: success, a failed open, or a failed bind.
HandlerBind(outcome) ==
    /\ handlerPc = "bind"
    /\ descriptorOpen' = (descriptorOpen \/ outcome # "open_fails")
    /\ outcome = "open_fails" => ~descriptorOpen
    /\ IF outcome = "ok"
       THEN /\ socketMutex' = "none"
            /\ handlerPc' = "return"
       ELSE /\ handlerPc' = "emit"
            /\ UNCHANGED socketMutex
    /\ UNCHANGED <<socketListMutex, handlerShared, inSocketList, instance, continuations,
                   destroyPc, underListMutex, ranOnReleased, nIssued>>
    /\ UNCHANGED notTeardown

\* AddCallback(make_unique<Callback>(Error, this, BIND_ERROR, ...)): the Callback
\* constructor calls GetSocketWrapper, which takes socketListMutex_ for the
\* search; the event is queued after the lookup returned; the handler's
\* socketLock, when it holds one, is released at the end of the scope.
HandlerEmit ==
    /\ handlerPc = "emit"
    /\ socketListMutex = "none"
    /\ underListMutex' = underListMutex \cup {"search"}
    /\ socketMutex' = IF socketMutex = "reactor" THEN "none" ELSE socketMutex
    /\ handlerPc' = "return"
    /\ UNCHANGED <<socketListMutex, handlerShared, inSocketList, instance, descriptorOpen,
                   continuations, destroyPc, ranOnReleased, nIssued>>
    /\ UNCHANGED notTeardown

\* The handler returns: the continuation's shared lock is released.
HandlerReturn ==
    /\ handlerPc = "return"
    /\ handlerShared' = handlerShared - 1
    /\ handlerPc' = "idle"
    /\ UNCHANGED <<socketListMutex, socketMutex, inSocketList, instance, descriptorOpen,
                   continuations, destroyPc, underListMutex, ranOnReleased, nIssued>>
    /\ UNCHANGED notTeardown

TeardownNext ==
    \/ IssueBindAsync
    \/ DestroyLock
    \/ DestructorLock
    \/ DestructorClose
    \/ DestructorRelease
    \/ DestroyUnlock
    \/ \E ec \in BOOLEAN, faults \in BOOLEAN : HandlerStart(ec, faults)
    \/ HandlerLockSocket
    \/ \E outcome \in {"ok", "open_fails", "bind_fails"} : HandlerBind(outcome)
    \/ HandlerEmit
    \/ HandlerReturn

(***************************************************************************)
(* SocketTLS::SetOption and the replay loop of SocketTLS::InitializeSocket. *)
(***************************************************************************)
\* The options the model sets on a TLS socket.
TlsSocketOptions == {"TLSVerifyPeer", "SocketKeepAlive", "PreferIPv6", "SocketSendBuffer"}

\* The cases of the switch in SocketTLS::SetOption; every other option falls
\* to `default:`.
HandledByTls == {"TLSVerifyPeer", "TLSVerifyHost", "TLSMinVersion", "TLSMaxVersion",
                 "SocketKeepAlive", "SocketReuseAddr"}

\* SocketTLS::SetOption(so, value) on the queue: `default:` pushes the option.
QueueAfterSetOption(queue, so) ==
    IF so \in HandledByTls THEN queue ELSE Append(queue, so)

ReplayInit ==
    /\ tlsOptionQueue = <<>>
    /\ replayPc = "idle"
    /\ poppedOption = "none"
    /\ appliedOptions = {}

\* SetOption called by the plugin before Connect.
TlsSetSocketOption(so) ==
    /\ replayPc = "idle"
    /\ Len(tlsOptionQueue) < MaxTlsQueued
    /\ tlsOptionQueue' = QueueAfterSetOption(tlsOptionQueue, so)
    /\ appliedOptions' = IF so \in HandledByTls THEN appliedOptions \cup {so}
                         ELSE appliedOptions
    /\ UNCHANGED <<replayPc, poppedOption>>
    /\ UNCHANGED notReplay

\* Connect reaches InitializeSocket: the descriptor is opened and the replay
\* loop entered.
ReplayStart ==
    /\ replayPc = "idle"
    /\ replayPc' = "test"
    /\ UNCHANGED <<tlsOptionQueue, poppedOption, appliedOptions>>
    /\ UNCHANGED notReplay

\* `while (!socketOptionQueue_.empty()) { opt = move(front()); pop();`
ReplayPop ==
    /\ replayPc = "test"
    /\ tlsOptionQueue # <<>>
    /\ poppedOption' = Head(tlsOptionQueue)
    /\ tlsOptionQueue' = Tail(tlsOptionQueue)
    /\ replayPc' = "apply"
    /\ UNCHANGED appliedOptions
    /\ UNCHANGED notReplay

\* `SetOption(opt->option, opt->value, false); }`
ReplayApply ==
    /\ replayPc = "apply"
    /\ tlsOptionQueue' = QueueAfterSetOption(tlsOptionQueue, poppedOption)
    /\ appliedOptions' = IF poppedOption \in HandledByTls
                         THEN appliedOptions \cup {poppedOption} ELSE appliedOptions
    /\ poppedOption' = "none"
    /\ replayPc' = "test"
    /\ UNCHANGED notReplay

\* The loop's test finds the queue empty: InitializeSocket returns and the
\* Connect goes on to its connect, handshake and terminal event.
ReplayDone ==
    /\ replayPc = "test"
    /\ tlsOptionQueue = <<>>
    /\ replayPc' = "done"
    /\ UNCHANGED <<tlsOptionQueue, poppedOption, appliedOptions>>
    /\ UNCHANGED notReplay

ReplayNext ==
    \/ \E so \in TlsSocketOptions : TlsSetSocketOption(so)
    \/ ReplayStart
    \/ ReplayPop
    \/ ReplayApply
    \/ ReplayDone

(***************************************************************************)
(* Socket::Disconnect and SocketTLS::Disconnect with a read pending: the   *)
(* close cancels the read, whose handler then runs with operation_aborted. *)
(***************************************************************************)
CloseInit ==
    /\ closingTcp = [armed |-> 1, trace |-> <<>>, sendQueueLength |-> 0]
    /\ closingTls = [armed |-> 1, trace |-> <<>>, sendQueueLength |-> 0]
    /\ isOpen = TRUE
    /\ readCancelled = FALSE
    /\ traceAtClose = -1
    /\ nCloseInputs = 0

\* A read completes on the open descriptors with data or an error of the peer.
OpenReadCompletes(outcome) ==
    /\ nCloseInputs < MaxCloseInputs
    /\ isOpen
    /\ closingTcp.armed > 0 /\ closingTls.armed > 0
    /\ closingTcp' = TcpReceiveHandler(closingTcp, outcome)
    /\ closingTls' = TlsReceiveHandler(closingTls, outcome)
    /\ nCloseInputs' = nCloseInputs + 1
    /\ UNCHANGED <<isOpen, readCancelled, traceAtClose>>
    /\ UNCHANGED notClose

\* Disconnect(): an open descriptor is closed and the Disconnect event queued;
\* the close cancels a pending read. On a closed descriptor nothing happens.
LocalDisconnect ==
    /\ nCloseInputs < MaxCloseInputs
    /\ nCloseInputs' = nCloseInputs + 1
    /\ IF isOpen
       THEN /\ isOpen' = FALSE
            /\ closingTcp' = Emit(closingTcp, <<"Disconnect">>)
            /\ closingTls' = Emit(closingTls, <<"Disconnect">>)
            /\ readCancelled' = (closingTcp.armed > 0)
            /\ traceAtClose' = Len(closingTcp.trace)
       ELSE UNCHANGED <<isOpen, closingTcp, closingTls, readCancelled, traceAtClose>>
    /\ UNCHANGED notClose

\* The cancelled read's handler runs: ReceiveHandler with operation_aborted.
CancelledReadCompletes ==
    /\ readCancelled
    /\ readCancelled' = FALSE
    /\ closingTcp' = TcpReceiveHandler(closingTcp, "operation_aborted")
    /\ closingTls' = TlsReceiveHandler(closingTls, "operation_aborted")
    /\ UNCHANGED <<isOpen, traceAtClose, nCloseInputs>>
    /\ UNCHANGED notClose

CloseNext ==
    \/ \E outcome \in ReadOutcomes : OpenReadCompletes(outcome)
    \/ LocalDisconnect
    \/ CancelledReadCompletes

(***************************************************************************)
(* Events of operations that outlive their socket: the completion handler  *)
(* builds its Callback from `this`, looked up in the registry by address.   *)
(***************************************************************************)
Addresses == 1..MaxAddresses

NoIncarnation == 0

\* SocketHandler::GetSocketWrapper on the registry as it is now: the wrapper whose
\* socket pointer equals the address, or null.
WrapperAt(registry, socket) == registry[socket]

StillRegistered(registry, sw) == \E a \in Addresses : registry[a] = sw

ReuseInit ==
    /\ allocated = [a \in Addresses |-> NoIncarnation]
    /\ callbacksSet = {}
    /\ outstanding = {}
    /\ boundEvents = <<>>
    /\ deliveries = {}
    /\ nIncarnations = 0
    /\ reuseCrashed = FALSE

\* SocketHandler::CreateSocket: operator new returns any address that holds no
\* live socket, a released one included; the wrapper is appended to the registry.
AllocateSocket(a) ==
    /\ ~reuseCrashed
    /\ nIncarnations < MaxIncarnations
    /\ allocated[a] = NoIncarnation
    /\ nIncarnations' = nIncarnations + 1
    /\ allocated' = [allocated EXCEPT ![a] = nIncarnations + 1]
    /\ UNCHANGED <<callbacksSet, outstanding, boundEvents, deliveries, reuseCrashed>>
    /\ UNCHANGED notReuse

\* The plugin sets the callbacks of a registered socket.
SetCallbacks(a) ==
    /\ ~reuseCrashed
    /\ allocated[a] # NoIncarnation
    /\ allocated[a] \notin callbacksSet
    /\ callbacksSet' = callbacksSet \cup {allocated[a]}
    /\ UNCHANGED <<allocated, outstanding, boundEvents, deliveries, nIncarnations,
                   reuseCrashed>>
    /\ UNCHANGED notReuse

\* An asynchronous operation is issued on a registered socket; its completion
\* handler captures `this`.
StartOperation(a) ==
    /\ ~reuseCrashed
    /\ allocated[a] # NoIncarnation
    /\ outstanding' = outstanding \cup {[this |-> a, issuer |-> allocated[a]]}
    /\ outstanding' # outstanding
    /\ UNCHANGED <<allocated, callbacksSet, boundEvents, deliveries, nIncarnations,
                   reuseCrashed>>
    /\ UNCHANGED notReuse

\* SocketHandler::DestroySocket: the wrapper is erased and the Socket deleted; its
\* operations stay at the reactor and its queued callbacks stay in the queue.
ReleaseSocket(a) ==
    /\ ~reuseCrashed
    /\ allocated[a] # NoIncarnation
    /\ allocated' = [allocated EXCEPT ![a] = NoIncarnation]
    /\ UNCHANGED <<callbacksSet, outstanding, boundEvents, deliveries, nIncarnations,
                   reuseCrashed>>
    /\ UNCHANGED notReuse

\* The completion handler runs on the reactor thread and queues
\* Callback(event, this): the wrapper is the one registered at `this` now.
OperationCompletes(op) ==
    /\ ~reuseCrashed
    /\ op \in outstanding
    /\ Len(boundEvents) < MaxBoundEvents
    /\ outstanding' = outstanding \ {op}
    /\ boundEvents' = Append(boundEvents,
           [socketWrapper |-> WrapperAt(allocated, op.this), issuer |-> op.issuer])
    /\ UNCHANGED <<allocated, callbacksSet, deliveries, nIncarnations, reuseCrashed>>
    /\ UNCHANGED notReuse

\* CallbackHandler::ExecuteQueuedCallbacks, one iteration: the first callback is
\* taken and, if IsValid() && IsExecutable(), executed on its wrapper's socket.
\* A wrapper released meanwhile is freed memory: its fields still read as they
\* were ("stale"), fail the test ("skip"), or the process dies ("crash").
ExecuteQueued(outcome) ==
    /\ ~reuseCrashed
    /\ boundEvents # <<>>
    /\ LET cb == Head(boundEvents)
           sw == cb.socketWrapper
           live == StillRegistered(allocated, sw)
       IN  /\ live => outcome = "stale"
           /\ reuseCrashed' = (sw # NoIncarnation /\ outcome = "crash")
           /\ deliveries' =
                 IF sw # NoIncarnation /\ outcome = "stale" /\ sw \in callbacksSet
                 THEN deliveries \cup {[receiver |-> sw, issuer |-> cb.issuer]}
                 ELSE deliveries
    /\ boundEvents' = Tail(boundEvents)
    /\ UNCHANGED <<allocated, callbacksSet, outstanding, nIncarnations>>
    /\ UNCHANGED notReuse

ReuseNext ==
    \/ \E a \in Addresses : AllocateSocket(a)
    \/ \E a \in Addresses : SetCallbacks(a)
    \/ \E a \in Addresses : StartOperation(a)
    \/ \E a \in Addresses : ReleaseSocket(a)
    \/ \E op \in outstanding : OperationCompletes(op)
    \/ \E outcome \in {"stale", "skip", "crash"} : ExecuteQueued(outcome)

(***************************************************************************)
(* Specifications. Each one runs one group of variables and pins the rest. *)
(***************************************************************************)
EnginePinned == EngineInit /\ kinds = {"Error"}

SendPinned == SendInit /\ ~sendqueueEmptyCallback

AcceptPinned == AcceptInit

RecvPinned == RecvInit /\ sent = <<>>

ConnPinned == ConnInit

TlsPinned == TlsInit

LockPinned == LockInit

ReactorPinned == ReactorInit

ContextPinned == ContextInit

SyncPinned == SyncInit

PairPinned == PairInit /\ ~emptyCallback

CmpPinned == CmpInit

CntPinned == CntInit /\ ~udpEmptyCallback

ChildPinned == ChildInit

FamilyPinned == FamilyInit

TeardownPinned == TeardownInit

ReplayPinned == ReplayInit

ClosePinned == CloseInit

ReusePinned == ReuseInit

Init == EngineInit /\ SendPinned /\ AcceptPinned /\ RecvPinned /\ ConnPinned /\ TlsPinned /\ LockPinned /\ ReactorPinned /\ ContextPinned /\ SyncPinned /\ PairPinned /\ CmpPinned /\ CntPinned /\ ChildPinned /\ FamilyPinned /\ TeardownPinned /\ ReplayPinned /\ ClosePinned /\ ReusePinned

Next == EngineNext

Spec == Init /\ [][Next]_vars

InitSend == SendInit /\ EnginePinned /\ AcceptPinned /\ RecvPinned /\ ConnPinned /\ TlsPinned /\ LockPinned /\ ReactorPinned /\ ContextPinned /\ SyncPinned /\ PairPinned /\ CmpPinned /\ CntPinned /\ ChildPinned /\ FamilyPinned /\ TeardownPinned /\ ReplayPinned /\ ClosePinned /\ ReusePinned

NextSend == SendNext

SpecSend == InitSend /\ [][NextSend]_vars

InitAccept == AcceptInit /\ EnginePinned /\ SendPinned /\ RecvPinned /\ ConnPinned /\ TlsPinned /\ LockPinned /\ ReactorPinned /\ ContextPinned /\ SyncPinned /\ PairPinned /\ CmpPinned /\ CntPinned /\ ChildPinned /\ FamilyPinned /\ TeardownPinned /\ ReplayPinned /\ ClosePinned /\ ReusePinned

NextAccept == AcceptNext

SpecAccept == InitAccept /\ [][NextAccept]_vars

InitRecv == RecvInit /\ EnginePinned /\ SendPinned /\ AcceptPinned /\ ConnPinned /\ TlsPinned /\ LockPinned /\ ReactorPinned /\ ContextPinned /\ SyncPinned /\ PairPinned /\ CmpPinned /\ CntPinned /\ ChildPinned /\ FamilyPinned /\ TeardownPinned /\ ReplayPinned /\ ClosePinned /\ ReusePinned

NextRecv == RecvNext

SpecRecv == InitRecv /\ [][NextRecv]_vars

InitConnect == ConnInit /\ EnginePinned /\ SendPinned /\ AcceptPinned /\ RecvPinned /\ TlsPinned /\ LockPinned /\ ReactorPinned /\ ContextPinned /\ SyncPinned /\ PairPinned /\ CmpPinned /\ CntPinned /\ ChildPinned /\ FamilyPinned /\ TeardownPinned /\ ReplayPinned /\ ClosePinned /\ ReusePinned

NextConnect == ConnNext

SpecConnect == InitConnect /\ [][NextConnect]_vars

InitTLS == TlsInit /\ EnginePinned /\ SendPinned /\ AcceptPinned /\ RecvPinned /\ ConnPinned /\ LockPinned /\ ReactorPinned /\ ContextPinned /\ SyncPinned /\ PairPinned /\ CmpPinned /\ CntPinned /\ ChildPinned /\ FamilyPinned /\ TeardownPinned /\ ReplayPinned /\ ClosePinned /\ ReusePinned

NextTLS == TlsNext

SpecTLS == InitTLS /\ [][NextTLS]_vars

InitLock == LockInit /\ EnginePinned /\ SendPinned /\ AcceptPinned /\ RecvPinned /\ ConnPinned /\ TlsPinned /\ ReactorPinned /\ ContextPinned /\ SyncPinned /\ PairPinned /\ CmpPinned /\ CntPinned /\ ChildPinned /\ FamilyPinned /\ TeardownPinned /\ ReplayPinned /\ ClosePinned /\ ReusePinned

NextLock == LockNext

SpecLock == InitLock /\ [][NextLock]_vars

InitReactor == ReactorInit /\ EnginePinned /\ SendPinned /\ AcceptPinned /\ RecvPinned /\ ConnPinned /\ TlsPinned /\ LockPinned /\ ContextPinned /\ SyncPinned /\ PairPinned /\ CmpPinned /\ CntPinned /\ ChildPinned /\ FamilyPinned /\ TeardownPinned /\ ReplayPinned /\ ClosePinned /\ ReusePinned

NextReactor == ReactorNext

SpecReactor == InitReactor /\ [][NextReactor]_vars

InitContext == ContextInit /\ EnginePinned /\ SendPinned /\ AcceptPinned /\ RecvPinned /\ ConnPinned /\ TlsPinned /\ LockPinned /\ ReactorPinned /\ SyncPinned /\ PairPinned /\ CmpPinned /\ CntPinned /\ ChildPinned /\ FamilyPinned /\ TeardownPinned /\ ReplayPinned /\ ClosePinned /\ ReusePinned

NextContext == ContextNext

SpecContext == InitContext /\ [][NextContext]_vars

InitSync == SyncInit /\ EnginePinned /\ SendPinned /\ AcceptPinned /\ RecvPinned /\ ConnPinned /\ TlsPinned /\ LockPinned /\ ReactorPinned /\ ContextPinned /\ PairPinned /\ CmpPinned /\ CntPinned /\ ChildPinned /\ FamilyPinned /\ TeardownPinned /\ ReplayPinned /\ ClosePinned /\ ReusePinned

NextSync == SyncNext

SpecSync == InitSync /\ [][NextSync]_vars

InitPair == PairInit /\ EnginePinned /\ SendPinned /\ AcceptPinned /\ RecvPinned /\ ConnPinned /\ TlsPinned /\ LockPinned /\ ReactorPinned /\ ContextPinned /\ SyncPinned /\ CmpPinned /\ CntPinned /\ ChildPinned /\ FamilyPinned /\ TeardownPinned /\ ReplayPinned /\ ClosePinned /\ ReusePinned

NextPair == PairNext

SpecPair == InitPair /\ [][NextPair]_vars

InitCmp == CmpInit /\ EnginePinned /\ SendPinned /\ AcceptPinned /\ RecvPinned /\ ConnPinned /\ TlsPinned /\ LockPinned /\ ReactorPinned /\ ContextPinned /\ SyncPinned /\ PairPinned /\ CntPinned /\ ChildPinned /\ FamilyPinned /\ TeardownPinned /\ ReplayPinned /\ ClosePinned /\ ReusePinned

NextCmp == CmpNext

SpecCmp == InitCmp /\ [][NextCmp]_vars

InitCnt == CntInit /\ EnginePinned /\ SendPinned /\ AcceptPinned /\ RecvPinned /\ ConnPinned /\ TlsPinned /\ LockPinned /\ ReactorPinned /\ ContextPinned /\ SyncPinned /\ PairPinned /\ CmpPinned /\ ChildPinned /\ FamilyPinned /\ TeardownPinned /\ ReplayPinned /\ ClosePinned /\ ReusePinned

NextCnt == CntNext

SpecCnt == InitCnt /\ [][NextCnt]_vars

InitChild == ChildInit /\ EnginePinned /\ SendPinned /\ AcceptPinned /\ RecvPinned /\ ConnPinned /\ TlsPinned /\ LockPinned /\ ReactorPinned /\ ContextPinned /\ SyncPinned /\ PairPinned /\ CmpPinned /\ CntPinned /\ FamilyPinned /\ TeardownPinned /\ ReplayPinned /\ ClosePinned /\ ReusePinned

NextChild == ChildNext

SpecChild == InitChild /\ [][NextChild]_vars

InitFamily == FamilyInit /\ EnginePinned /\ SendPinned /\ AcceptPinned /\ RecvPinned /\ ConnPinned /\ TlsPinned /\ LockPinned /\ ReactorPinned /\ ContextPinned /\ SyncPinned /\ PairPinned /\ CmpPinned /\ CntPinned /\ ChildPinned /\ TeardownPinned /\ ReplayPinned /\ ClosePinned /\ ReusePinned

NextFamily == FamilyNext

SpecFamily == InitFamily /\ [][NextFamily]_vars

InitTeardown == TeardownInit /\ EnginePinned /\ SendPinned /\ AcceptPinned /\ RecvPinned /\ ConnPinned /\ TlsPinned /\ LockPinned /\ ReactorPinned /\ ContextPinned /\ SyncPinned /\ PairPinned /\ CmpPinned /\ CntPinned /\ ChildPinned /\ FamilyPinned /\ ReplayPinned /\ ClosePinned /\ ReusePinned

NextTeardown == TeardownNext

SpecTeardown == InitTeardown /\ [][NextTeardown]_vars

InitReplay == ReplayInit /\ EnginePinned /\ SendPinned /\ AcceptPinned /\ RecvPinned /\ ConnPinned /\ TlsPinned /\ LockPinned /\ ReactorPinned /\ ContextPinned /\ SyncPinned /\ PairPinned /\ CmpPinned /\ CntPinned /\ ChildPinned /\ FamilyPinned /\ TeardownPinned /\ ClosePinned /\ ReusePinned

NextReplay == ReplayNext

\* The thread inside InitializeSocket keeps running.
ReplayFairness == WF_vars(ReplayPop) /\ WF_vars(ReplayApply) /\ WF_vars(ReplayDone)

SpecReplay == InitReplay /\ [][NextReplay]_vars /\ ReplayFairness

InitClose == CloseInit /\ EnginePinned /\ SendPinned /\ AcceptPinned /\ RecvPinned /\ ConnPinned /\ TlsPinned /\ LockPinned /\ ReactorPinned /\ ContextPinned /\ SyncPinned /\ PairPinned /\ CmpPinned /\ CntPinned /\ ChildPinned /\ FamilyPinned /\ TeardownPinned /\ ReplayPinned /\ ReusePinned

NextClose == CloseNext

SpecClose == InitClose /\ [][NextClose]_vars

InitReuse == ReuseInit /\ EnginePinned /\ SendPinned /\ AcceptPinned /\ RecvPinned /\ ConnPinned /\ TlsPinned /\ LockPinned /\ ReactorPinned /\ ContextPinned /\ SyncPinned /\ PairPinned /\ CmpPinned /\ CntPinned /\ ChildPinned /\ FamilyPinned /\ TeardownPinned /\ ReplayPinned /\ ClosePinned

NextReuse == ReuseNext

SpecReuse == InitReuse /\ [][NextReuse]_vars

(***************************************************************************)
(* Claims about the registry, the callback queue and the drain (Spec).     *)
(***************************************************************************)
\* A step that finishes the execution of the fetched callback.
DrainStep == fetched # NoCallback /\ fetched' = NoCallback

\* C1: after Destroy(id) has been issued, no later Drain invokes a handler of that
\* socket: every handler invocation is for a callback whose socket is still
\* registered when the handler runs.
C1_NoHandlerAfterDestroy ==
    [][(DrainStep /\ lastDrain' = "dispatched") => IsRegistered(fetched.socketWrapper)]_vars

\* C2: DestroySocket purges the pending events of the socket it destroys: the
\* callback queue never holds an event bound to a wrapper that is no longer registered.
C2_DestroyPurgesQueue ==
    \A i \in 1..Len(callbackQueue) :
        IsValid(callbackQueue[i]) => IsRegistered(callbackQueue[i].socketWrapper)

\* C3: the callback queue is FIFO. The queue holds its events in the order of their
\* insertion by AddCallback, the event being executed was inserted before every
\* event still queued, and every fetch takes the oldest event of the queue.
QueueInOrder ==
    /\ \A i, j \in 1..Len(callbackQueue) :
          i < j => callbackQueue[i].seq < callbackQueue[j].seq
    /\ \A i \in 1..Len(callbackQueue) :
          /\ callbackQueue[i].seq \in 1..nextSeq
          /\ fetched # NoCallback => fetched.seq < callbackQueue[i].seq

C3_QueueIsFIFO ==
    /\ []QueueInOrder
    /\ [][(fetched = NoCallback /\ fetched' # NoCallback) =>
            /\ callbackQueue # <<>>
            /\ \A i \in 1..Len(callbackQueue) : fetched'.seq <= callbackQueue[i].seq
            /\ \A i \in 1..Len(callbackQueue') : fetched'.seq < callbackQueue'[i].seq]_vars

\* C3 witness: an event was fetched while a later event of the same socket waits.
C3_Witness ==
    /\ fetched # NoCallback
    /\ callbackQueue # <<>>
    /\ IsValid(fetched)
    /\ callbackQueue[1].socketWrapper = fetched.socketWrapper

\* C4: an event taken by Drain whose socket is still registered and has a handler
\* for the event's kind is dispatched to that handler, for every protocol and kind.
C4_DispatchedWhenRegisteredAndHandled ==
    [][(/\ DrainStep
        /\ IsValid(fetched)
        /\ IsRegistered(fetched.socketWrapper)
        /\ fetched.callbackEvent \in handlers[fetched.socketWrapper])
       => lastDrain' = "dispatched"]_vars

(***************************************************************************)
(* Claims about the send path (SpecSend).                                  *)
(***************************************************************************)
\* Every async send issued so far has completed.
AllSendsCompleted == writes = 0 /\ reactorPc = "idle" /\ consumerPc = "idle"

C5_DrainedInv ==
    /\ sendQueueLength = writes + (IF consumerPc \in {"w_ok", "w_err"} THEN 1 ELSE 0)
    /\ nSends = 0 => nDrained = 0
    /\ ~sendqueueEmptyCallback => nDrained = 0
    /\ nDrained + nSendErrors <= nSends
    /\ (burst /\ nSync = 0 /\ ~AllSendsCompleted) => nDrained = 0
    /\ (/\ sendqueueEmptyCallback
        /\ burst
        /\ nSync = 0
        /\ nSends > 0
        /\ nSendErrors = 0
        /\ AllSendsCompleted) => nDrained = 1

ListeningOnce == nListenOk = 1

\* C6: a listener emits one Incoming event per accepted connection and has a new
\* accept pending after each of them; after the first accept error it has emitted one
\* Error(LISTEN_ERROR) for it, no accept is pending and no further Incoming event
\* is emitted.
C6_AcceptLoopInv ==
    /\ nIncoming = nAcceptOk
    /\ nListenErrors = nAcceptErr + nListenFail
    /\ acceptPending = nListenOk - nAcceptErr
    /\ acceptPending > 0 => tcpAcceptor
    /\ tcpAcceptor => socketOptionQueue = <<>>
    /\ (ListeningOnce /\ nAcceptErr = 0) => acceptPending = 1
    /\ (ListeningOnce /\ nAcceptErr > 0) =>
          /\ nAcceptErr = 1
          /\ nListenErrors = 1 + nListenFail
          /\ acceptPending = 0
          /\ nIncoming = incomingAtError

\* An Incoming event is emitted by a step that leaves as many accepts pending.
IncomingStep ==
    nIncoming' # nIncoming =>
        /\ nIncoming' = nIncoming + 1
        /\ acceptPending > 0
        /\ acceptPending' = acceptPending
        /\ nListenErrors' = nListenErrors

\* Once the accept loop has failed, it emits nothing more and arms nothing.
AfterAcceptErrorStep ==
    (ListeningOnce /\ nListenOk' = 1 /\ nAcceptErr > 0) =>
        /\ nIncoming' = nIncoming
        /\ nListenErrors' = nListenErrors
        /\ acceptPending' = 0

C37_DisconnectEndsAcceptLoop ==
    [][(disconnectEvents' > disconnectEvents /\ tcpAcceptor) => acceptPending' = 0]_vars

(***************************************************************************)
(* Claims about the receive loop (SpecRecv).                               *)
(***************************************************************************)
RECURSIVE Concat(_)
\* The concatenation of the payloads of a sequence of Receive callbacks.
Concat(queue) ==
    IF queue = <<>> THEN <<>> ELSE Head(queue).data \o Concat(Tail(queue))

\* C7: the bytes read by the receive loop reach the receive handler unchanged and
\* in order, NUL bytes included, each payload as long as the number of bytes read;
\* the payloads delivered, then those queued, then the bytes still unread are the
\* bytes the peer sent, so once everything is read and drained the concatenated
\* payloads are the bytes sent.
C7_ReceiveRoundTrip ==
    /\ delivered \o Concat(recvQueue) \o remaining = sent
    /\ \A i \in 1..Len(recvQueue) :
          /\ Len(recvQueue[i].data) = recvQueue[i].dataLength
          /\ recvQueue[i].dataLength \in 1..BufferSize
    /\ Len(lastData) = lastBytes
    /\ lastSize = lastBytes
    /\ Len(delivered) >= Len(lastData)
    /\ SubSeq(delivered, Len(delivered) - Len(lastData) + 1, Len(delivered)) = lastData
    /\ (remaining = <<>> /\ recvQueue = <<>>) => delivered = sent

\* C7 witness: a stream with an embedded NUL was read in more than one piece and
\* delivered completely.
C7_Witness ==
    /\ Len(sent) >= 3
    /\ sent[2] = 0
    /\ sent[1] # 0
    /\ sent[3] # 0
    /\ remaining = <<>>
    /\ recvQueue = <<>>
    /\ ~reading
    /\ delivered = sent
    /\ lastBytes < Len(sent)

(***************************************************************************)
(* Claims about endpoint selection, Connect and the options (SpecConnect). *)
(***************************************************************************)
HasFamily(list, family) == \E i \in 1..Len(list) : list[i].family = family

\* The position of the first endpoint of the family in the list.
FirstOf(list, family) ==
    CHOOSE i \in 1..Len(list) :
        /\ list[i].family = family
        /\ \A j \in 1..(i - 1) : list[j].family # family

\* The endpoint the selection rules name, End(list) standing for "no endpoint".
PreferredEndpoint(list, f) ==
    IF f.ipv6Only
    THEN (IF HasFamily(list, "v6") THEN FirstOf(list, "v6") ELSE End(list))
    ELSE IF f.preferIPv6 /\ HasFamily(list, "v6") THEN FirstOf(list, "v6")
    ELSE IF f.preferIPv4 /\ HasFamily(list, "v4") THEN FirstOf(list, "v4")
    ELSE IF list = <<>> THEN End(list)
    ELSE 1

\* A Connect has run the selection.
SelectionDone == connPc \in {"connecting", "connected", "failed"} /\ selected # 0

\* C8: SelectPreferredEndpoint returns the first IPv6 endpoint or none under
\* ipv6_only, else the first IPv6 endpoint under prefer_ipv6 when there is one, else
\* the first IPv4 endpoint under prefer_ipv4 when there is one, else the first
\* endpoint in resolver order; this for the selection of every Connect, whatever
\* the result list and the flags it ran under, and the Connect ends in
\* Error(NO_HOST) without any connect attempt when no endpoint was selected.
C8_SelectPreferredEndpoint ==
    SelectionDone =>
          /\ selected = PreferredEndpoint(results, selectedUnder)
          /\ selected = End(results) =>
                /\ connPc = "failed"
                /\ nNoHost = 1
                /\ tried = <<>>
                /\ nConnectEvents = 0
                /\ nConnectErrors = 0
          /\ selected # End(results) => (tried # <<>> /\ tried[1] = selected /\ nNoHost = 0)

\* C8 witness: under ipv6_only a Connect resolved to IPv4 endpoints only, the
\* first of which would have accepted, and ended in Error(NO_HOST).
C8_Witness ==
    /\ SelectionDone
    /\ selectedUnder.ipv6Only
    /\ Len(results) >= 2
    /\ ~HasFamily(results, "v6")
    /\ results[1].accepts
    /\ selected = End(results)
    /\ nNoHost = 1

\* C9: a TCP Connect, async or not, whose connect to the chosen endpoint fails
\* goes on to the next endpoints in resolver order and emits Error(CONNECT_ERROR)
\* only when the list is exhausted: a Connect that ended in CONNECT_ERROR has
\* tried every endpoint from the selected one to the last, and a Connect ends in
\* the Connect event whenever one of these accepts.
C9_FallbackThroughList ==
    (connPc \in {"connected", "failed"} /\ selected # 0 /\ selected # End(results)) =>
        /\ nConnectEvents + nConnectErrors = 1
        /\ nConnectErrors = 1 =>
              tried = [i \in 1..(Len(results) - selected + 1) |-> selected + i - 1]
        /\ nConnectEvents = 1 <=>
              \E i \in selected..Len(results) : results[i].accepts

\* The flags after SetOption(so, value), when only the preference flags exclude
\* each other.
OptionEffect ==
    lastOption' # lastOption =>
        LET so == lastOption'.so
            on == lastOption'.value # 0
        IN  /\ so = "IPv6Only" =>
                  /\ ipv6Only' = on
                  /\ preferIPv6' = preferIPv6
                  /\ preferIPv4' = preferIPv4
            /\ so = "PreferIPv6" =>
                  /\ preferIPv6' = on
                  /\ preferIPv4' = (preferIPv4 /\ ~on)
                  /\ ipv6Only' = ipv6Only
            /\ so = "PreferIPv4" =>
                  /\ preferIPv4' = on
                  /\ preferIPv6' = (preferIPv6 /\ ~on)
                  /\ ipv6Only' = ipv6Only

C11_LastWriteWins ==
    /\ ~(preferIPv6 /\ preferIPv4)
    /\ (lastOption.so = "PreferIPv4" /\ lastOption.value # 0) =>
          (preferIPv4 /\ ~preferIPv6 /\ clearedByLast \in {"none", "PreferIPv6"})
    /\ (lastOption.so = "PreferIPv6" /\ lastOption.value # 0) =>
          (preferIPv6 /\ ~preferIPv4 /\ clearedByLast \in {"none", "PreferIPv4"})
    /\ clearedByLast = "PreferIPv6" =>
          (lastOption.so = "PreferIPv4" /\ lastOption.value # 0 /\ preferIPv4)
    /\ clearedByLast = "PreferIPv4" =>
          (lastOption.so = "PreferIPv6" /\ lastOption.value # 0 /\ preferIPv6)

\* C11 witness: SetOption(PreferIPv4, 1) was called on a socket whose prefer_ipv6
\* was true and switched it off.
C11_Witness ==
    /\ lastOption = [so |-> "PreferIPv4", value |-> 1]
    /\ clearedByLast = "PreferIPv6"
    /\ preferIPv4
    /\ ~preferIPv6

(***************************************************************************)
(* Claims about Bind, the option queue and Listen (SpecAccept).            *)
(***************************************************************************)
\* C12: an option queued by SetOption before the descriptor exists is applied to
\* the descriptor a subsequent Bind creates: once the socket is bound no queued
\* option is left in the queue.
C12_BindAppliesQueuedOptions ==
    socketBound => socketOptionQueue = <<>>

\* A step that is a call of Listen.
ListenCall == nListenOk' + nListenFail' # nListenOk + nListenFail

\* C13: Listen on a socket that has no local endpoint returns false, emits one
\* Error(LISTEN_ERROR), creates no acceptor and arms no accept.
C13_ListenWithoutEndpointStep ==
    (ListenCall /\ ~localEndpoint) =>
        /\ listenResult' = "false"
        /\ nListenErrors' = nListenErrors + 1
        /\ nListenFail' = nListenFail + 1
        /\ nIncoming' = nIncoming
        /\ ~tcpAcceptor'
        /\ acceptPending' = 0
        /\ ~localEndpoint'

C13_ListenWithoutEndpoint ==
    /\ [](~localEndpoint => (~tcpAcceptor /\ acceptPending = 0 /\ nListenOk = 0
                              /\ nListenErrors = nListenFail
                              /\ listenResult \in {"none", "false"}))
    /\ [][C13_ListenWithoutEndpointStep]_vars

\* C13 witness: Listen was called while an asynchronous Bind had not completed yet.
C13_Witness ==
    /\ ~localEndpoint
    /\ bindPending
    /\ listenResult = "false"
    /\ nListenFail = 1
    /\ nListenErrors = 1
    /\ ~tcpAcceptor
    /\ acceptPending = 0

\* A step that is a call of Disconnect.
DisconnectCall == disconnectCalls' = disconnectCalls + 1

\* C14: Disconnect closes an open descriptor and emits one Disconnect event; on
\* a closed socket it changes nothing and emits nothing, so the Disconnect calls
\* made in a row on a socket that was open emit exactly one Disconnect event.
C14_DisconnectInv ==
    /\ disconnectEvents <= 1
    /\ socketOpen => (disconnectCalls = 0 /\ disconnectEvents = 0)
    /\ (wasOpen /\ disconnectCalls >= 1) => (disconnectEvents = 1 /\ ~socketOpen)
    /\ ~wasOpen => disconnectEvents = 0

C14_DisconnectStep ==
    DisconnectCall =>
        /\ ~socketOpen'
        /\ socketOpen => disconnectEvents' = disconnectEvents + 1
        /\ ~socketOpen => UNCHANGED <<bindVars, optionVars, listenVars, disconnectEvents,
                                      wasOpen>>

LastEvent == IF tlsEvents = <<>> THEN "none" ELSE tlsEvents[Len(tlsEvents)]

C15_HandshakeInv ==
    /\ tlsReading => (handshakeState = "ok" /\ tcpConnected)
    /\ handshakeState = "failed" =>
           (~tlsReading /\ tlsPc = "failed" /\ LastEvent = "TLS_HANDSHAKE_ERROR")

\* A step that queues Connect.
C15_ConnectedStep ==
    (tlsEvents' # tlsEvents /\ tlsEvents'[Len(tlsEvents')] = "Connect")
        => (tcpConnected' /\ handshakeState' = "ok")

\* A step in which a handshake fails.
C15_HandshakeFailureStep ==
    (handshakeState' = "failed" /\ handshakeState # "failed")
        => (tlsEvents' = Append(tlsEvents, "TLS_HANDSHAKE_ERROR") /\ ~tlsReading')

\* C15: on a TLS socket Connect is queued only by a step after which the TCP
\* connect and the TLS handshake have both succeeded; a failed handshake
\* queues exactly Error(TLS_HANDSHAKE_ERROR), no Connect, and leaves the
\* receive loop unarmed, in the sync and in the async variant of Connect.
C15_ConnectedOnlyAfterHandshake ==
    []C15_HandshakeInv /\ [][C15_ConnectedStep /\ C15_HandshakeFailureStep]_vars

\* A sync Connect that succeeded, a Disconnect, then an async Connect whose
\* handshake failed.
C15_Witness ==
    /\ tlsEvents = <<"Connect", "Disconnect", "TLS_HANDSHAKE_ERROR">>
    /\ tlsAsync
    /\ handshakeState = "failed"

\* C16: the verification callback rejects when verify_peer is on and the
\* library's chain check failed, rejects when (verify_peer and) verify_host is
\* on and the presented identity is not the connect hostname, and accepts
\* everything when verify_peer is off; stated of every call the handshake
\* made of it.
C16_VerifyCallback ==
    lastVerify.called =>
        /\ (lastVerify.peer /\ ~lastVerify.preverified) => ~lastVerify.result
        /\ (lastVerify.peer /\ lastVerify.host /\ ~lastVerify.matches) => ~lastVerify.result
        /\ ~lastVerify.peer => lastVerify.result

\* C20: after a Connect that failed, at the TCP connect or at the TLS
\* handshake, the descriptor of the socket is not open: IsOpen() is false
\* when the failure is reported and for as long as the socket stays failed.
C20_FailedConnectLeavesSocketClosed ==
    tlsPc = "failed" => (~openAtFailure /\ ~lowestLayerOpen)

(***************************************************************************)
(* Claims about the callback-queue mutex (SpecLock).                       *)
(***************************************************************************)
\* The consumer thread is between the return of FetchFirstCallback and the
\* return of the handler, outside AddCallback.
InHandlerOrBefore == drainPc \in {"fetched", "handler", "handlerAdds"}

\* C17: the consumer thread does not hold the callback-queue mutex from the
\* moment FetchFirstCallback has returned an event, through the liveness
\* check, to the end of the handler; so a handler that re-enters the engine
\* and calls AddCallback finds the mutex free or held by the reactor thread
\* inside its own AddCallback, which releases it: it never waits on itself.
C17_NoHandlerUnderQueueLock ==
    /\ InHandlerOrBefore => callbackQueueMutex # "consumer"
    /\ drainPc = "handlerAdds" =>
           (callbackQueueMutex = "free"
            \/ (callbackQueueMutex = "reactor" /\ producerPc = "adding"))
    /\ callbackQueueMutex = "consumer" <=> drainPc \in {"locked", "handlerAdding"}

\* A handler is about to enqueue from inside the drain while the reactor
\* thread holds the mutex, after an earlier re-entry went through.
C17_Witness ==
    /\ drainPc = "handlerAdds"
    /\ callbackQueueMutex = "reactor"
    /\ nReentries = 2

(***************************************************************************)
(* Claims about the reactor thread (SpecReactor).                          *)
(***************************************************************************)
\* The state of the reactor without the ghosts of the calls.
reactorState == <<ioServiceProcessingThreadInitialized, ioServiceWork, ioServiceStopped,
                  threadPc, liveThreads, pendingHandlers, stopPc>>

C18_OneThread ==
    /\ liveThreads <= 1
    /\ liveThreads = 1 => ioServiceProcessingThreadInitialized

\* StartProcessing on a started reactor changes nothing.
C18_StartStep ==
    (nStarts' # nStarts /\ ioServiceProcessingThreadInitialized)
        => UNCHANGED reactorState

\* StopProcessing on a reactor that is not started changes nothing; on a
\* started one it drops the token and stops the io_service before it waits.
C18_StopStep ==
    nStops' # nStops =>
        IF ioServiceProcessingThreadInitialized
        THEN ~ioServiceWork' /\ ioServiceStopped' /\ stopPc' = "joining"
        ELSE UNCHANGED reactorState

\* StopProcessing returns only when no reactor thread is left.
C18_StopReturns ==
    (stopPc = "joining" /\ stopPc' = "idle")
        => (liveThreads' = 0 /\ threadPc' = "none"
            /\ ~ioServiceProcessingThreadInitialized')

\* C18: StartProcessing while the reactor is started is a no-op and there is
\* never more than one reactor thread; StopProcessing releases the keep-alive
\* token, stops the io_service and returns only after the reactor thread has
\* left RunIoService, also when it was inside a completion handler at the
\* call; StopProcessing on a reactor that is not started is a no-op.
C18_ReactorLifecycle ==
    []C18_OneThread /\ [][C18_StartStep /\ C18_StopStep /\ C18_StopReturns]_vars

\* A Start that was a no-op followed by a Stop that found the thread inside a
\* handler and has returned, then a Stop that was a no-op.
C18_Witness ==
    /\ lastStart = "noop"
    /\ stopMidCallback
    /\ lastStop = "noop"
    /\ nStops = 2
    /\ ~ioServiceProcessingThreadInitialized
    /\ liveThreads = 0

\* C36: whenever the reactor is marked as started and no Stop is under way,
\* after any sequence of Start and Stop calls, the keep-alive token is held and
\* the reactor thread is inside ioService->run(), also with nothing pending.
C36_StartedReactorKeepsRunning ==
    (ioServiceProcessingThreadInitialized /\ stopPc = "idle") =>
        (ioServiceWork /\ threadPc \in {"running", "inCallback"})

(***************************************************************************)
(* Claims about the TLS material of several sockets (SpecContext).         *)
(***************************************************************************)
\* The certificate, key and CA material socket s handshakes with: its
\* stream's certificate and key, and the CA store of its context.
MaterialOf(s) ==
    IF socketContext[s] = NoContext THEN NoMaterial
    ELSE [streamMaterial[s] EXCEPT
             !["TLSCAFile"] = contextMaterial[socketContext[s]]["TLSCAFile"]]

\* C19: what is done to one socket never changes another socket: a
\* SetTLSOption call on socket A leaves the certificate, key and CA material
\* every other socket B uses as it was.
C19_IsolatedTlsMaterial ==
    [][\A a \in TlsSocketIds, b \in TlsSocketIds :
          (nTlsOptions' # nTlsOptions /\ lastTlsOption'.socket = a /\ b # a
           /\ b \in tlsSockets)
              => MaterialOf(b)' = MaterialOf(b)]_vars


(***************************************************************************)
(* Claims about the synchronous entry points (SpecSync).                   *)
(***************************************************************************)
ErrorsOf(events) == SelectSeq(events, LAMBDA e : e.event = "Error")

C22_RegistryInv ==
    /\ \A w \in Registered :
          /\ GetSocketWrapper(wrappers[w].socket) = w
          /\ wrappers[w].socketType \in SocketTypes
    /\ \A i, j \in 1..Len(socketList) :
          i # j => /\ socketList[i] # socketList[j]
                   /\ wrappers[socketList[i]].socket # wrappers[socketList[j]].socket
    /\ \A w \in Ids \ Registered :
          /\ DestroySocketList(socketList, w) = socketList
          /\ wrappers[w].socket \notin LiveAddrs => GetSocketWrapper(wrappers[w].socket) = NoWrapper

\* A step that registers a socket appends one entry for it and keeps the others.
C22_RegisterStep ==
    Len(wrappers') # Len(wrappers) =>
        /\ Len(wrappers') = Len(wrappers) + 1
        /\ Registered' = Registered \cup {Len(wrappers')}
        /\ SubSeq(wrappers', 1, Len(wrappers)) = wrappers

\* A step that unregisters an entry removes that one only, and leaves no
\* entry for its identity.
C22_DestroyStep ==
    \A w \in Registered :
        w \notin Registered' =>
            /\ Registered' = Registered \ {w}
            /\ \A v \in Registered' : wrappers'[v].socket # wrappers[w].socket

SeqsOf(queue) == {queue[i].seq : i \in 1..Len(queue)}

\* Every queued event is in the queue once, and the event held by the drain is
\* not in the queue.
C23_HeldOnce ==
    /\ Cardinality(SeqsOf(callbackQueue)) = Len(callbackQueue)
    /\ fetched # NoCallback => fetched.seq \notin SeqsOf(callbackQueue)

\* No step puts an event back: what is in the queue after a step was in it
\* before or is the one event just inserted, which is newer than every event
\* inserted so far.
C23_NoReinsertion ==
    \A s \in SeqsOf(callbackQueue') :
        s \in SeqsOf(callbackQueue) \/ (s = nextSeq + 1 /\ nextSeq' = nextSeq + 1)

\* A fetch takes one event out of the queue, and the drain holds nothing else
\* until that event's one execution step has ended.
C23_FetchAndExecute ==
    /\ (fetched' # fetched /\ fetched' # NoCallback) =>
           /\ fetched = NoCallback
           /\ fetched'.seq \in SeqsOf(callbackQueue)
           /\ SeqsOf(callbackQueue') = SeqsOf(callbackQueue) \ {fetched'.seq}
    /\ (fetched # NoCallback /\ fetched' # fetched) => fetched' = NoCallback
    /\ lastDrain' # lastDrain => DrainStep

\* C23: every event pushed onto the callback queue is removed from it at most
\* once and executed at most once, whatever the interleaving of AddCallback,
\* RemoveCallbacks and the drain: an event is in the queue once, leaves it by
\* one fetch or one removal, never comes back, and a fetched event gets one
\* execution step.
C23_AtMostOneExecution ==
    []C23_HeldOnce /\ [][C23_NoReinsertion /\ C23_FetchAndExecute]_vars

\* An event was dispatched and a newer one is still queued.
C23_Witness ==
    /\ lastDrain = "dispatched"
    /\ fetched = NoCallback
    /\ SeqsOf(callbackQueue) = {2}

(***************************************************************************)
(* Claims about the receive loop and Send of TCP and TLS (SpecPair).       *)
(***************************************************************************)
TerminalEvents == {"Disconnect", "RECV_ERROR"}

TerminalsIn(trace) == {i \in 1..Len(trace) : trace[i] \in TerminalEvents}

C24_LoopInv ==
    /\ tcpSide.armed \in {0, 1}
    /\ Cardinality(TerminalsIn(tcpSide.trace)) = terminals
    /\ terminals <= 1
    /\ tcpSide.armed = 0 <=> terminals = 1
    /\ \A i \in TerminalsIn(tcpSide.trace) :
          \A j \in (i + 1)..Len(tcpSide.trace) : tcpSide.trace[j] # "Receive"

\* A completion with data queues Receive and leaves one read armed; a
\* terminal completion queues one terminal event and leaves none.
C24_CompletionStep ==
    /\ tcpSide'.armed # tcpSide.armed =>
           /\ terminals' = terminals + 1
           /\ \E e \in TerminalEvents : tcpSide'.trace = Append(tcpSide.trace, e)
    /\ terminals' # terminals => tcpSide'.armed = 0
    /\ (nInputs' # nInputs /\ writesInFlight' = writesInFlight
        /\ tcpSide'.sendQueueLength = tcpSide.sendQueueLength
        /\ tcpSide'.armed = tcpSide.armed /\ Len(tcpSide'.trace) > Len(tcpSide.trace)
        /\ tcpSide'.trace[Len(tcpSide'.trace)] = "Receive")
           => (tcpSide'.armed = 1 /\ tcpSide'.trace = Append(tcpSide.trace, "Receive"))

\* C24: every read completion of a TCP socket either queues Receive and
\* re-arms the read, or on eof / connection_reset queues Disconnect and stops,
\* or on another error queues Error(RECV_ERROR) and stops; so the loop ends
\* with exactly one terminal event, no Receive follows it, and at most one
\* read is pending.
C24_ReceiveLoop == []C24_LoopInv /\ [][C24_CompletionStep]_vars

\* Two reads delivered data and the third ended the loop with an error.
C24_Witness ==
    /\ tcpSide.trace = <<"Receive", "Receive", "RECV_ERROR">>
    /\ tcpSide.armed = 0

\* C25: a TLS session given the same Send calls and the same read and write
\* completion outcomes as a TCP socket queues the same sequence of Receive,
\* Disconnect, Error(RECV_ERROR / SEND_ERROR) and SendQueueEmpty events.
C25_TlsSameEventsAsTcp == tlsSide.trace = tcpSide.trace

(***************************************************************************)
(* Claims about the endpoints a TLS Connect tries (SpecCmp).               *)
(***************************************************************************)
\* C26: a TLS Connect resolves and connects like a TCP Connect before the
\* handshake: on the same resolver result and flags it tries the same
\* endpoints in the same order and ends the same way (NO_HOST when the
\* preferences leave no endpoint, CONNECT_ERROR only after the endpoints
\* are exhausted).
C26_TlsConnectsLikeTcp == tlsConnect = tcpConnect

\* C27: a UDP Connect makes a single attempt: when the connect to the chosen
\* endpoint fails no further endpoint is tried, and CONNECT_ERROR follows
\* that one attempt.
C27_UdpSingleAttempt == Len(udpConnect.tried) <= 1

\* C28: while ipv6_only is set, a TCP Connect never attempts an IPv4 endpoint,
\* neither as the selected endpoint nor as a fallback after a failed attempt
\* (so that no Connect event can stand for an IPv4 connection).
C28_Ipv6OnlyNeverTriesIpv4 ==
    (SelectionDone /\ selectedUnder.ipv6Only /\ Flags.ipv6Only) =>
        \A i \in 1..Len(tried) : results[tried[i]].family = "v6"

(***************************************************************************)
(* Claims about the outstanding-send counter (SpecCnt).                    *)
(***************************************************************************)
\* C29: the outstanding-send counter equals the number of Send / SendTo
\* operations issued and not yet completed, on every completion path (success,
\* error, resolution failure, exception); it never wraps below zero.
C29_CounterIsOutstandingSends ==
    udpSendQueueLength = pendingSends + pendingResolves + pendingSendTos

(***************************************************************************)
(* Claims about the order of the statements of an accept (SpecChild).      *)
(***************************************************************************)
\* Statement `step` was executed for child c before position i of the log.
DoneBefore(step, c, i) ==
    \E j \in 1..(i - 1) : stepLog[j].step = step /\ stepLog[j].child = c

\* C30: on a successful accept the child is registered (its lookup succeeds)
\* before the Incoming event is enqueued, the Incoming event is enqueued before
\* the child's read is armed, and the next accept is issued after that; so every
\* event of a child is behind the Incoming event naming it in the queue.
C30_AcceptOrder ==
    /\ \A i \in 1..Len(stepLog) :
          LET e == stepLog[i]
          IN  /\ e.step = "enqueue" => (e.registered /\ DoneBefore("register", e.child, i))
              /\ e.step = "arm" => DoneBefore("enqueue", e.child, i)
              /\ e.step = "accept" => DoneBefore("arm", e.child, i)
    /\ \A c \in childReads :
          \E j \in 1..Len(inserted) : inserted[j] = [event |-> "Incoming", socket |-> c]
    /\ \A i \in 1..Len(inserted) :
          (inserted[i].socket # 0 /\ inserted[i].event # "Incoming") =>
              \E j \in 1..(i - 1) :
                  inserted[j] = [event |-> "Incoming", socket |-> inserted[i].socket]
    /\ (acceptIssued /\ nArrivals > 0) =>
          (stepLog # <<>> /\ stepLog[Len(stepLog)].step = "accept")

\* C30 witness: a first child was accepted and delivered data, then a second
\* child was accepted, its read armed and the next accept issued.
C30_Witness ==
    /\ Len(inserted) >= 3
    /\ inserted[1] = [event |-> "Incoming", socket |-> 1]
    /\ inserted[2] = [event |-> "Receive", socket |-> 1]
    /\ inserted[3] = [event |-> "Incoming", socket |-> 2]
    /\ childReads = {1, 2}
    /\ acceptIssued
    /\ acceptStep = "done"

(***************************************************************************)
(* Claims about the family of the descriptor (SpecFamily).                 *)
(***************************************************************************)
\* C31: Bind opens a closed descriptor with the family the preference flags
\* choose (IPv6 under ipv6_only or prefer_ipv6, IPv4 otherwise), so a bind to
\* an IPv6 local endpoint with an IPv6 preference set succeeds.
C31_BindOpensByPreference ==
    (lastOpen.op = "Bind" /\ lastOpen.wasClosed) =>
        /\ lastOpen.descriptor = ProtocolByFlags(lastOpen.flags)
        /\ (ProtocolByFlags(lastOpen.flags) = "v6" /\ lastOpen.endpoint = "v6") => lastOpen.ok

\* C32: the descriptor a Connect opens has the family of the endpoint the
\* connect is attempted on, whatever the flags and the resolver's result.
C32_ConnectDescriptorMatchesEndpoint ==
    (lastOpen.op = "Connect" /\ lastOpen.wasClosed) =>
        lastOpen.descriptor = lastOpen.endpoint

(***************************************************************************)
(* Claims about teardown and the locks (SpecTeardown).                     *)
(***************************************************************************)
\* C33: teardown takes the per-socket liveness lock exclusively, so the
\* instance is never released while a continuation referencing it holds or can
\* still take the shared lock, and no continuation runs on a released socket.
C33_TeardownSerializesWithContinuations ==
    /\ instance = "released" => (handlerShared = 0 /\ continuations = 0)
    /\ ~ranOnReleased

\* C34: Create, Destroy and Lookup exclude each other under the registry lock,
\* and the lock is held only while the list is mutated or searched: never while
\* a descriptor is closed or an instance released.
C34_RegistryLockOnlyForListAccess ==
    /\ socketListMutex \in {"none", "consumer", "reactor"}
    /\ underListMutex \subseteq {"mutate", "search"}

\* C35: Destroy on the consumer thread and a completion handler that emits an
\* event under the per-socket lock never block each other for good: the
\* registry lock and the per-socket lock are not taken in opposite orders.
C35_NoLockOrderDeadlock ==
    ~ /\ destroyPc = "erasing" /\ descriptorOpen /\ socketMutex = "reactor"
      /\ handlerPc = "emit" /\ socketListMutex = "consumer"

(***************************************************************************)
(* Claims about the replay of a TLS socket's queued options (SpecReplay).  *)
(***************************************************************************)
\* C38: a TLS Connect always terminates, whatever options were set before: the
\* replay of the queued options in InitializeSocket terminates and leaves the
\* queue empty, also for options the TLS session does not handle itself.
C38_ReplayTerminates ==
    (replayPc \in {"test", "apply"}) ~> (replayPc = "done" /\ tlsOptionQueue = <<>>)

(***************************************************************************)
(* Claims about a local Disconnect() (SpecClose).                          *)
(***************************************************************************)
\* C39: a local Disconnect() on a connected TCP socket produces exactly one
\* Disconnect event and no Error event: the read the close cancels emits
\* neither Error(RECV_ERROR) nor a second Disconnect.
C39_LocalDisconnectEmitsOneEvent ==
    traceAtClose >= 0 =>
        SubSeq(closingTcp.trace, traceAtClose + 1, Len(closingTcp.trace)) = <<"Disconnect">>


(***************************************************************************)
(* Claims about events of operations that outlive their socket (SpecReuse). *)
(***************************************************************************)
\* C40: every event stays bound to the socket whose operation produced it: a
\* handler only ever runs for the socket that issued the operation, also when
\* the completion arrives after that socket was destroyed and a new socket has
\* been created since; a new socket never receives such an event.
C40_EventBoundToIssuingSocket ==
    \A d \in deliveries : d.receiver = d.issuer

=============================================================================
